---------------------------- MODULE Spec2Model ----------------------------
(***************************************************************************)
(* A model of the zygl2 monitoring daemon: the double-buffered chassis     *)
(* repository, the stack and alert repositories, the data collector's      *)
(* two phases and the UDP command listener.                                *)
(***************************************************************************)
EXTENDS Integers, Sequences, FiniteSets, TLC

(***************************************************************************)
(* Program constants.                                                      *)
(***************************************************************************)
BOARDS_PER_CHASSIS == 14
MAX_TASKS_PER_BOARD == 8

(***************************************************************************)
(* Bounds of the model.  The program has TOTAL_CHASSIS_COUNT = 9 chassis;  *)
(* the model instantiates NumChassis of them, numbered 1..NumChassis.      *)
(***************************************************************************)
NumChassis == 2
MaxCommits == 2
MaxReads == 1
MaxTicks == 2
MaxTime == 2
MaxAge == 1
MaxAlerts == 2
MaxDatagrams == 2
MaxBroadcasts == 1
MaxDaemonWork == 1
MaxEmissions == 3
MaxWebhookRequests == 2
MaxStoreCalls == 3

Min(a, b) == IF a <= b THEN a ELSE b

(***************************************************************************)
(* std::optional                                                           *)
(***************************************************************************)
None == [has_value |-> FALSE]
Some(v) == [has_value |-> TRUE, value |-> v]

(***************************************************************************)
(* Domain: value objects, Board, Chassis.                                  *)
(* Strings are atomic values; every string of the model fits the fixed     *)
(* char[] field it is copied into.  A board address "192.168.c.y" is the   *)
(* tuple <<192, 168, c, y>>; the empty string is <<>>.                     *)
(***************************************************************************)
TaskStatusInfo(id, st, sn, su, kn, ku) ==
    [taskID |-> id, taskStatus |-> st, serviceName |-> sn,
     serviceUUID |-> su, stackName |-> kn, stackUUID |-> ku]

ZeroTask == TaskStatusInfo("", "", "", "", "", "")

ZeroTasks == [i \in 1..MAX_TASKS_PER_BOARD |-> ZeroTask]

GetBoardTypeBySlot(slotNumber) ==
    IF slotNumber = 6 \/ slotNumber = 7 THEN "Switch"
    ELSE IF slotNumber = 13 \/ slotNumber = 14 THEN "Power"
    ELSE "Computing"

Board(address, number, type) ==
    [m_boardAddress |-> address, m_boardNumber |-> number, m_boardType |-> type,
     m_status |-> "Unknown", m_taskCount |-> 0, m_tasks |-> ZeroTasks]

DefaultBoard == Board(<<>>, 0, "Computing")

CanRunTasks(board) == board.m_boardType = "Computing"

\* an IsAbnormal that is false of an offline board
IsAbnormal_OnlineOnly(board) == board.m_status = "Abnormal"

IsAbnormal(board) == board.m_status = "Abnormal" \/ board.m_status = "Offline"

IsOnline(board) == board.m_status = "Normal" \/ board.m_status = "Abnormal"

UpdateFromApiData_NoTypeCheck(board, statusFromApi, tasksFromApi) ==
    LET n == Min(Len(tasksFromApi), MAX_TASKS_PER_BOARD)
    IN  [board EXCEPT
            !.m_status = IF statusFromApi = 0 THEN "Normal" ELSE "Abnormal",
            !.m_taskCount = n,
            !.m_tasks = [i \in 1..MAX_TASKS_PER_BOARD |->
                            IF i <= n THEN tasksFromApi[i] ELSE ZeroTask]]

UpdateFromApiData_StatusVerbatim(board, statusFromApi, tasksFromApi) ==
    LET st == IF statusFromApi = 0 THEN "Normal"
              ELSE IF statusFromApi = 1 THEN "Abnormal" ELSE "Offline"
        n == Min(Len(tasksFromApi), MAX_TASKS_PER_BOARD)
    IN  IF ~CanRunTasks(board)
        THEN [board EXCEPT !.m_status = st, !.m_taskCount = 0]
        ELSE [board EXCEPT
                !.m_status = st,
                !.m_taskCount = n,
                !.m_tasks = [i \in 1..MAX_TASKS_PER_BOARD |->
                                IF i <= n THEN tasksFromApi[i] ELSE ZeroTask]]

UpdateFromApiData(board, statusFromApi, tasksFromApi) ==
    LET st == IF statusFromApi = 0 THEN "Normal" ELSE "Abnormal"
        n == Min(Len(tasksFromApi), MAX_TASKS_PER_BOARD)
    IN  IF ~CanRunTasks(board)
        THEN [board EXCEPT !.m_status = st, !.m_taskCount = 0]
        ELSE [board EXCEPT
                !.m_status = st,
                !.m_taskCount = n,
                !.m_tasks = [i \in 1..MAX_TASKS_PER_BOARD |->
                                IF i <= n THEN tasksFromApi[i] ELSE ZeroTask]]

\* a MarkAsOffline that resets the whole board
MarkAsOffline_Reset(board) == DefaultBoard

MarkAsOffline(board) ==
    [board EXCEPT !.m_status = "Offline", !.m_taskCount = 0, !.m_tasks = ZeroTasks]

DefaultChassis ==
    [m_chassisNumber |-> 0, m_chassisName |-> <<>>,
     m_boards |-> [s \in 1..BOARDS_PER_CHASSIS |-> DefaultBoard]]

(***************************************************************************)
(* ChassisFactory: the default topology, board (c, s) at 192.168.c.(100+s).*)
(***************************************************************************)
BoardAddress(chassisNumber, slotNumber) == <<192, 168, chassisNumber, 100 + slotNumber>>

CreateBoard(chassisNumber, slotNumber) ==
    Board(BoardAddress(chassisNumber, slotNumber), slotNumber,
          GetBoardTypeBySlot(slotNumber))

CreateChassis(chassisNumber) ==
    [m_chassisNumber |-> chassisNumber, m_chassisName |-> <<"chassis", chassisNumber>>,
     m_boards |-> [s \in 1..BOARDS_PER_CHASSIS |-> CreateBoard(chassisNumber, s)]]

CreateFullTopology == [c \in 1..NumChassis |-> CreateChassis(c)]

(***************************************************************************)
(* QywApiClient.  An HTTP exchange is                                      *)
(*   [kind |-> "no_response"]            no connection, or the timeout     *)
(*   [kind |-> "response", status, body] a response; body is               *)
(*       [json |-> FALSE]                       not JSON                   *)
(*       [json |-> TRUE, has_data |-> FALSE]    JSON without a data array  *)
(*       [json |-> TRUE, has_data |-> TRUE, data |-> <<...>>]              *)
(***************************************************************************)
NoResponse == [kind |-> "no_response"]
HttpResponse(status, body) == [kind |-> "response", status |-> status, body |-> body]
NotJson == [json |-> FALSE]
JsonNoData == [json |-> TRUE, has_data |-> FALSE]
JsonData(data) == [json |-> TRUE, has_data |-> TRUE, data |-> data]

ParseBoardInfoResponse(body) ==
    IF ~body.json THEN None
    ELSE IF ~body.has_data THEN None
    ELSE Some(body.data)

GetBoardInfo_FailureAsEmpty(res) ==
    IF res.kind = "no_response" THEN Some(<<>>)
    ELSE IF res.status # 200 THEN Some(<<>>)
    ELSE ParseBoardInfoResponse(res.body)

GetBoardInfo(res) ==
    IF res.kind = "no_response" THEN None
    ELSE IF res.status # 200 THEN None
    ELSE ParseBoardInfoResponse(res.body)

ParseStackInfoResponse(body) ==
    IF ~body.json THEN None
    ELSE IF ~body.has_data THEN None
    ELSE Some(body.data)

GetStackInfo(res) ==
    IF res.kind = "no_response" THEN None
    ELSE IF res.status # 200 THEN None
    ELSE ParseStackInfoResponse(res.body)

(***************************************************************************)
(* QywApiClient::Deploy / Undeploy and StackControlService.  The body of   *)
(* a reply to a deploy or undeploy request is JSON that may hold the       *)
(* arrays successStackInfos and failureStackInfos.                         *)
(***************************************************************************)
StackResult(stackName, stackUUID, message) ==
    [stackName |-> stackName, stackUUID |-> stackUUID, message |-> message]

JsonDeploy(successStackInfos, failureStackInfos) ==
    [json |-> TRUE, has_data |-> FALSE, successStackInfos |-> successStackInfos,
     failureStackInfos |-> failureStackInfos]

DeployResponse(successStackInfos, failureStackInfos) ==
    [successStackInfos |-> successStackInfos, failureStackInfos |-> failureStackInfos]

ParseDeployResponse(body) ==
    IF ~body.json THEN None
    ELSE Some(DeployResponse(
                  IF "successStackInfos" \in DOMAIN body THEN body.successStackInfos ELSE <<>>,
                  IF "failureStackInfos" \in DOMAIN body THEN body.failureStackInfos ELSE <<>>))

QywApiClient_Deploy(res) ==
    IF res.kind = "no_response" THEN None
    ELSE IF res.status # 200 THEN None
    ELSE ParseDeployResponse(res.body)

QywApiClient_Undeploy(res) ==
    IF res.kind = "no_response" THEN None
    ELSE IF res.status # 200 THEN None
    ELSE ParseDeployResponse(res.body)

\* the POST request a call sends to the backend
DeployRequest(path, stackLabels) == [path |-> path, stackLabels |-> stackLabels]

\* ResponseDTO<T>::Success and ::Failure; empty is T{}
ResponseDTO_Success(data, msg) ==
    [success |-> TRUE, message |-> msg, data |-> data, errorCode |-> 0]

ResponseDTO_Failure(msg, empty) ==
    [success |-> FALSE, message |-> msg, data |-> empty, errorCode |-> -1]

DeployResultDTO(successStacks, failureStacks) ==
    [successStacks |-> successStacks, failureStacks |-> failureStacks,
     totalCount |-> Len(successStacks) + Len(failureStacks),
     successCount |-> Len(successStacks), failureCount |-> Len(failureStacks)]

\* the copy loops of DeployByLabels and UndeployByLabels
ConvertStackResults(infos) ==
    [i \in 1..Len(infos) |->
        StackResult(infos[i].stackName, infos[i].stackUUID, infos[i].message)]

\* a conversion that files every stack of the reply under the successes
ConvertToDeployResult_AllSucceeded(apiResponse) ==
    DeployResultDTO(ConvertStackResults(apiResponse.successStackInfos
                                            \o apiResponse.failureStackInfos), <<>>)

ConvertToDeployResult(apiResponse) ==
    DeployResultDTO(ConvertStackResults(apiResponse.successStackInfos),
                    ConvertStackResults(apiResponse.failureStackInfos))

\* a DeployByLabels that reports failure when the reply lists a failed stack
DeployByLabels_FailOnFailures(command, res) ==
    IF command.stackLabels = <<>>
    THEN [posted |-> <<>>,
          response |-> ResponseDTO_Failure("label list must not be empty",
                                           DeployResultDTO(<<>>, <<>>))]
    ELSE [posted |-> <<DeployRequest("/api/v1/external/qyw/deploy", command.stackLabels)>>,
          response |->
              IF ~QywApiClient_Deploy(res).has_value
              THEN ResponseDTO_Failure("backend API call failed", DeployResultDTO(<<>>, <<>>))
              ELSE IF QywApiClient_Deploy(res).value.failureStackInfos # <<>>
              THEN ResponseDTO_Failure("Deploy command failed",
                                       ConvertToDeployResult(QywApiClient_Deploy(res).value))
              ELSE ResponseDTO_Success(ConvertToDeployResult(QywApiClient_Deploy(res).value),
                                       "Deploy command completed")]

\* StackControlService::DeployByLabels: what it posts to the backend and the
\* ResponseDTO it returns, res being the HTTP exchange of the post
DeployByLabels(command, res) ==
    IF command.stackLabels = <<>>
    THEN [posted |-> <<>>,
          response |-> ResponseDTO_Failure("label list must not be empty",
                                           DeployResultDTO(<<>>, <<>>))]
    ELSE [posted |-> <<DeployRequest("/api/v1/external/qyw/deploy", command.stackLabels)>>,
          response |->
              IF ~QywApiClient_Deploy(res).has_value
              THEN ResponseDTO_Failure("backend API call failed", DeployResultDTO(<<>>, <<>>))
              ELSE ResponseDTO_Success(ConvertToDeployResult(QywApiClient_Deploy(res).value),
                                       "Deploy command completed")]

\* StackControlService::UndeployByLabels
UndeployByLabels(command, res) ==
    IF command.stackLabels = <<>>
    THEN [posted |-> <<>>,
          response |-> ResponseDTO_Failure("label list must not be empty",
                                           DeployResultDTO(<<>>, <<>>))]
    ELSE [posted |-> <<DeployRequest("/api/v1/external/qyw/undeploy", command.stackLabels)>>,
          response |->
              IF ~QywApiClient_Undeploy(res).has_value
              THEN ResponseDTO_Failure("backend API call failed", DeployResultDTO(<<>>, <<>>))
              ELSE ResponseDTO_Success(ConvertToDeployResult(QywApiClient_Undeploy(res).value),
                                       "Undeploy command completed")]

DeployCommandDTO(stackLabels) == [stackLabels |-> stackLabels]

NoControlCall ==
    [op |-> "none", command |-> DeployCommandDTO(<<>>), reply |-> NoResponse,
     posted |-> <<>>, response |-> ResponseDTO_Failure("", DeployResultDTO(<<>>, <<>>)),
     before |-> [op |-> "none", command |-> DeployCommandDTO(<<>>)]]

\* the record of a call of op with command, made after the call last
ControlCall(op, command, res, last) ==
    LET r == IF op = "DeployByLabels" THEN DeployByLabels(command, res)
                                      ELSE UndeployByLabels(command, res)
    IN  [op |-> op, command |-> command, reply |-> res, posted |-> r.posted,
         response |-> r.response,
         before |-> [op |-> last.op, command |-> last.command]]

ApiFailed(res) ==
    \/ res.kind = "no_response"
    \/ res.status # 200
    \/ ~res.body.json
    \/ ~res.body.has_data

(***************************************************************************)
(* DataCollectorService: phase A on a copy of the chassis array.           *)
(* A BoardInfoData is [boardAddress, boardStatus, taskInfos]; its other    *)
(* fields are not read by the collector.                                   *)
(***************************************************************************)
BoardInfoData(addr, status, tasks) ==
    [boardAddress |-> addr, boardStatus |-> status, taskInfos |-> tasks]

ConvertTasks(taskInfos) ==
    [i \in 1..Len(taskInfos) |->
        TaskStatusInfo(taskInfos[i].taskID, taskInfos[i].taskStatus,
                       taskInfos[i].serviceName, taskInfos[i].serviceUUID,
                       taskInfos[i].stackName, taskInfos[i].stackUUID)]

\* index of the first entry of boardInfos reporting boardAddr, 0 when none does
FirstReport(boardInfos, boardAddr) ==
    LET hits == {i \in 1..Len(boardInfos) : boardInfos[i].boardAddress = boardAddr}
    IN  IF hits = {} THEN 0 ELSE CHOOSE i \in hits : \A j \in hits : i <= j

UpdateBoard(board, boardInfos) ==
    LET k == FirstReport(boardInfos, board.m_boardAddress)
    IN  IF k # 0
        THEN UpdateFromApiData(board, boardInfos[k].boardStatus,
                               ConvertTasks(boardInfos[k].taskInfos))
        ELSE MarkAsOffline(board)

\* an UpdateAllChassis that does not skip the chassis of number 0
UpdateAllChassis_Every(allChassis, boardInfos) ==
    [c \in DOMAIN allChassis |->
        [allChassis[c] EXCEPT
            !.m_boards = [s \in 1..BOARDS_PER_CHASSIS |->
                            UpdateBoard(allChassis[c].m_boards[s], boardInfos)]]]

UpdateAllChassis(allChassis, boardInfos) ==
    [c \in DOMAIN allChassis |->
        IF allChassis[c].m_chassisNumber = 0
        THEN allChassis[c]
        ELSE [allChassis[c] EXCEPT
                !.m_boards = [s \in 1..BOARDS_PER_CHASSIS |->
                                UpdateBoard(allChassis[c].m_boards[s], boardInfos)]]]

(***************************************************************************)
(* Domain: Task, Service, Stack.  A std::map is a function on its key set. *)
(***************************************************************************)
MAX_LABELS_PER_STACK == 8
StackRunningStatus_Normal == 1
StackRunningStatus_Abnormal == 2
ServiceStatus_Abnormal == 3
StackDeployStatus_Deployed == 1

EmptyMap == [k \in {} |-> 0]

MapPut(m, key, value) ==
    [k \in DOMAIN m \cup {key} |-> IF k = key THEN value ELSE m[k]]

StackLabelInfo(name, uuid) == [labelName |-> name, labelUUID |-> uuid]

ZeroLabel == StackLabelInfo("", "")

\* Task(taskID), SetTaskStatus, SetBoardAddress, UpdateResources, UpdateLocation
Task(taskID) ==
    [m_taskID |-> taskID, m_taskStatus |-> "", m_boardAddress |-> <<>>,
     m_resources |-> 0, m_location |-> [chassisNumber |-> 0, boardNumber |-> 0,
                                        boardAddress |-> <<>>]]

UpdateLocation(task, location) ==
    [task EXCEPT !.m_location = location,
                 !.m_boardAddress = IF location.boardAddress # <<>>
                                    THEN location.boardAddress ELSE @]

Service(serviceUUID, serviceName) ==
    [m_serviceUUID |-> serviceUUID, m_serviceName |-> serviceName,
     m_status |-> 0, m_type |-> 0, m_tasks |-> EmptyMap]

AddOrUpdateTask(service, task) ==
    [service EXCEPT !.m_tasks = MapPut(@, task.m_taskID, task)]

Service_IsAbnormal(service) == service.m_status = ServiceStatus_Abnormal

Stack(stackUUID, stackName) ==
    [m_stackUUID |-> stackUUID, m_stackName |-> stackName,
     m_deployStatus |-> 0, m_runningStatus |-> StackRunningStatus_Normal,
     m_labelCount |-> 0,
     m_labels |-> [i \in 1..MAX_LABELS_PER_STACK |-> ZeroLabel],
     m_services |-> EmptyMap]

\* an AddLabel that overwrites the last label of a full list
AddLabel_KeepLast(stack, label) ==
    IF stack.m_labelCount >= MAX_LABELS_PER_STACK
    THEN [stack EXCEPT !.m_labels[MAX_LABELS_PER_STACK] = label]
    ELSE [stack EXCEPT !.m_labels[stack.m_labelCount + 1] = label,
                       !.m_labelCount = @ + 1]

\* AddLabel, the stack it leaves
AddLabel(stack, label) ==
    IF stack.m_labelCount >= MAX_LABELS_PER_STACK
    THEN stack
    ELSE [stack EXCEPT !.m_labels[stack.m_labelCount + 1] = label,
                       !.m_labelCount = @ + 1]

\* AddLabel, the value it returns
AddLabel_Return(stack, label) ==
    IF stack.m_labelCount >= MAX_LABELS_PER_STACK THEN FALSE ELSE TRUE

AddOrUpdateService(stack, service) ==
    [stack EXCEPT !.m_services = MapPut(@, service.m_serviceUUID, service)]

\* a RecalculateRunningStatus that leaves a stack without services as it is
RecalculateRunningStatus_KeepWhenEmpty(stack) ==
    IF DOMAIN stack.m_services = {}
    THEN stack
    ELSE IF \E u \in DOMAIN stack.m_services : Service_IsAbnormal(stack.m_services[u])
    THEN [stack EXCEPT !.m_runningStatus = StackRunningStatus_Abnormal]
    ELSE [stack EXCEPT !.m_runningStatus = StackRunningStatus_Normal]

RecalculateRunningStatus(stack) ==
    IF DOMAIN stack.m_services = {}
    THEN [stack EXCEPT !.m_runningStatus = StackRunningStatus_Normal]
    ELSE IF \E u \in DOMAIN stack.m_services : Service_IsAbnormal(stack.m_services[u])
    THEN [stack EXCEPT !.m_runningStatus = StackRunningStatus_Abnormal]
    ELSE [stack EXCEPT !.m_runningStatus = StackRunningStatus_Normal]

(***************************************************************************)
(* DataCollectorService::ConvertToStack.  A StackInfoData is               *)
(* [stackName, stackUUID, stackDeployStatus, stackRunningStatus,           *)
(*  stackLabelInfos, serviceInfos]; the loops are folds over the vectors.  *)
(***************************************************************************)
ConvertTask(taskInfo) ==
    UpdateLocation(
        [Task(taskInfo.taskID) EXCEPT !.m_taskStatus = taskInfo.taskStatus,
                                      !.m_boardAddress = taskInfo.boardAddress,
                                      !.m_resources = taskInfo.resources],
        [chassisNumber |-> taskInfo.chassisNumber, boardNumber |-> taskInfo.boardNumber,
         boardAddress |-> taskInfo.boardAddress])

RECURSIVE AddTasks(_, _, _)
AddTasks(service, taskInfos, i) ==
    IF i > Len(taskInfos) THEN service
    ELSE AddTasks(AddOrUpdateTask(service, ConvertTask(taskInfos[i])), taskInfos, i + 1)

ConvertService(serviceInfo) ==
    AddTasks([Service(serviceInfo.serviceUUID, serviceInfo.serviceName)
                 EXCEPT !.m_status = serviceInfo.serviceStatus,
                        !.m_type = serviceInfo.serviceType],
             serviceInfo.taskInfos, 1)

RECURSIVE AddLabels(_, _, _)
AddLabels(stack, labelInfos, i) ==
    IF i > Len(labelInfos) THEN stack
    ELSE AddLabels(AddLabel(stack, StackLabelInfo(labelInfos[i].labelName,
                                                  labelInfos[i].labelUUID)),
                   labelInfos, i + 1)

RECURSIVE AddServices(_, _, _)
AddServices(stack, serviceInfos, i) ==
    IF i > Len(serviceInfos) THEN stack
    ELSE AddServices(AddOrUpdateService(stack, ConvertService(serviceInfos[i])),
                     serviceInfos, i + 1)

ConvertToStack(stackInfo) ==
    AddServices(
        AddLabels([Stack(stackInfo.stackUUID, stackInfo.stackName)
                      EXCEPT !.m_deployStatus = stackInfo.stackDeployStatus,
                             !.m_runningStatus = stackInfo.stackRunningStatus],
                  stackInfo.stackLabelInfos, 1),
        stackInfo.serviceInfos, 1)

ConvertStacks(stackInfos) == [i \in 1..Len(stackInfos) |-> ConvertToStack(stackInfos[i])]

(***************************************************************************)
(* InMemoryStackRepository, as functions of the map m_stacks.  Every       *)
(* operation holds m_mutex from its first to its last statement.           *)
(***************************************************************************)
StackRepository_Save(stacks_map, stack) == MapPut(stacks_map, stack.m_stackUUID, stack)

RECURSIVE StackRepository_SaveFrom(_, _, _)
StackRepository_SaveFrom(stacks_map, stacks, i) ==
    IF i > Len(stacks) THEN stacks_map
    ELSE StackRepository_SaveFrom(MapPut(stacks_map, stacks[i].m_stackUUID, stacks[i]),
                                  stacks, i + 1)

StackRepository_SaveAll_Replacing(stacks_map, stacks) ==
    StackRepository_SaveFrom(EmptyMap, stacks, 1)

StackRepository_SaveAll(stacks_map, stacks) ==
    StackRepository_SaveFrom(stacks_map, stacks, 1)

\* InMemoryStackRepository::GetAll; the order of the result is not modelled
StackRepository_GetAll(stacks_map) == {stacks_map[u] : u \in DOMAIN stacks_map}

StackRepository_Remove(stacks_map, stackUUID) ==
    [k \in DOMAIN stacks_map \ {stackUUID} |-> stacks_map[k]]

StackRepository_Clear(stacks_map) == EmptyMap

\* the map CollectStackInfo leaves for the exchange res
CollectStackInfo_Clearing(stacks_map, res) ==
    LET stackInfosOpt == GetStackInfo(res)
    IN  IF ~stackInfosOpt.has_value THEN EmptyMap
        ELSE StackRepository_SaveAll(stacks_map, ConvertStacks(stackInfosOpt.value))

CollectStackInfo_Stacks(stacks_map, res) ==
    LET stackInfosOpt == GetStackInfo(res)
    IN  IF ~stackInfosOpt.has_value THEN stacks_map
        ELSE StackRepository_SaveAll(stacks_map, ConvertStacks(stackInfosOpt.value))

(***************************************************************************)
(* Domain: Alert.  An alert UUID "alert-board-<seconds>-<random>" is the   *)
(* tuple <<"alert-board", seconds, random>>; the std::map orders such      *)
(* strings by seconds, then by random, while seconds keep their number of  *)
(* digits.                                                                 *)
(***************************************************************************)
MAX_ALERT_MESSAGES == 16

AlertMessage(message, timestamp) == [message |-> message, timestamp |-> timestamp]

ZeroMessage == AlertMessage("", 0)

LocationInfo(chassisNumber, boardNumber, boardAddress) ==
    [chassisNumber |-> chassisNumber, boardNumber |-> boardNumber,
     boardAddress |-> boardAddress]

Alert(alertUUID, type) ==
    [m_alertUUID |-> alertUUID, m_alertType |-> type, m_timestamp |-> 0,
     m_isAcknowledged |-> FALSE, m_relatedEntity |-> <<>>,
     m_messageCount |-> 0,
     m_messages |-> [i \in 1..MAX_ALERT_MESSAGES |-> ZeroMessage],
     m_location |-> LocationInfo(0, 0, <<>>),
     m_stackName |-> <<>>, m_stackUUID |-> <<>>, m_serviceName |-> <<>>,
     m_serviceUUID |-> <<>>, m_taskID |-> <<>>]

\* AddMessage, the alert it leaves; clock is GetCurrentTimestamp()
AddMessage(alert, message, clock) ==
    IF alert.m_messageCount >= MAX_ALERT_MESSAGES
    THEN alert
    ELSE [alert EXCEPT !.m_messages[alert.m_messageCount + 1] = AlertMessage(message, clock),
                       !.m_messageCount = @ + 1]

\* AddMessage, the value it returns
AddMessage_Return(alert, message) ==
    IF alert.m_messageCount >= MAX_ALERT_MESSAGES THEN FALSE ELSE TRUE

RECURSIVE AddMessages(_, _, _, _)
AddMessages(alert, messages, i, clock) ==
    IF i > Len(messages) \/ alert.m_messageCount >= MAX_ALERT_MESSAGES THEN alert
    ELSE AddMessages(AddMessage(alert, messages[i], clock), messages, i + 1, clock)

CreateBoardAlert(alertUUID, location, messages, clock) ==
    AddMessages([Alert(alertUUID, "Board") EXCEPT !.m_timestamp = clock,
                                                  !.m_location = location,
                                                  !.m_relatedEntity = location.boardAddress],
                messages, 1, clock)

Alert_Acknowledge(alert) == [alert EXCEPT !.m_isAcknowledged = TRUE]

GetAgeInSeconds(alert, clock) ==
    IF clock > alert.m_timestamp THEN clock - alert.m_timestamp ELSE 0

GenerateAlertUUID(type, clock, random) == <<type, clock, random>>

UUIDLess(a, b) == a[2] < b[2] \/ (a[2] = b[2] /\ a[3] < b[3])

\* a query that returns every alert, acknowledged or not
AlertRepository_GetUnacknowledged_All(alerts) ==
    LET U == DOMAIN alerts
        rank(u) == Cardinality({v \in U : UUIDLess(v, u)})
    IN  [i \in 1..Cardinality(U) |-> alerts[CHOOSE u \in U : rank(u) = i - 1]]

\* InMemoryAlertRepository::GetUnacknowledged: the unacknowledged alerts in
\* the order of the map
AlertRepository_GetUnacknowledged(alerts) ==
    LET U == {u \in DOMAIN alerts : ~alerts[u].m_isAcknowledged}
        rank(u) == Cardinality({v \in U : UUIDLess(v, u)})
    IN  [i \in 1..Cardinality(U) |-> alerts[CHOOSE u \in U : rank(u) = i - 1]]

(***************************************************************************)
(* InMemoryAlertRepository, as functions of the map m_alerts.  Every       *)
(* operation holds m_mutex from its first to its last statement.           *)
(* RemoveExpired reads the clock once for every alert it tests: clock[u]   *)
(* is the reading for the alert u.                                         *)
(***************************************************************************)
AlertRepository_Save(alerts, alert) == MapPut(alerts, alert.m_alertUUID, alert)

\* an Acknowledge that refuses an alert that is acknowledged already
AlertRepository_Acknowledge_OnceOnly(alerts, alertUUID) ==
    IF alertUUID \in DOMAIN alerts /\ ~alerts[alertUUID].m_isAcknowledged
    THEN [alerts |-> [alerts EXCEPT ![alertUUID] = Alert_Acknowledge(@)], found |-> TRUE]
    ELSE [alerts |-> alerts, found |-> FALSE]

AlertRepository_Acknowledge(alerts, alertUUID) ==
    IF alertUUID \in DOMAIN alerts
    THEN [alerts |-> [alerts EXCEPT ![alertUUID] = Alert_Acknowledge(@)], found |-> TRUE]
    ELSE [alerts |-> alerts, found |-> FALSE]

AlertRepository_RemoveExpired_IgnoringAck(alerts, maxAgeSeconds, clock) ==
    LET expired == {u \in DOMAIN alerts :
                       GetAgeInSeconds(alerts[u], clock[u]) > maxAgeSeconds}
    IN  [alerts |-> [u \in DOMAIN alerts \ expired |-> alerts[u]],
         removedCount |-> Cardinality(expired)]

AlertRepository_RemoveExpired(alerts, maxAgeSeconds, clock) ==
    LET expired == {u \in DOMAIN alerts :
                       /\ alerts[u].m_isAcknowledged
                       /\ GetAgeInSeconds(alerts[u], clock[u]) > maxAgeSeconds}
    IN  [alerts |-> [u \in DOMAIN alerts \ expired |-> alerts[u]],
         removedCount |-> Cardinality(expired)]

(***************************************************************************)
(* State.                                                                  *)
(***************************************************************************)
VARIABLES
    \* InMemoryChassisRepository
    m_buffer_A, m_buffer_B,     \* the two chassis arrays
    m_activeBuffer,             \* "A" or "B": the atomic pointer
    m_backBuffer,               \* "A" or "B": the writer's pointer
    \* a SaveAll in progress on the writer thread
    sv_pc,                      \* "idle", "write", "exchange", "rotate"
    sv_allChassis,              \* the argument of SaveAll
    sv_idx,                     \* next element of *m_backBuffer to assign
    sv_oldActive,               \* the local oldActive
    nCommits,                   \* SaveAll calls completed
    committed,                  \* history: the snapshots published so far
    \* a GetAll in progress on a reader thread
    rd_pc,                      \* "idle", "copy", "done"
    rd_active,                  \* the local active
    rd_idx,                     \* next element of *active to copy
    rd_result,                  \* the elements copied so far
    rd_atLoad,                  \* history: the active array when it was loaded
    rd_swaps,                   \* history: exchanges since the load
    rd_late,                    \* history: a write of a commit after such an exchange
    nReads,                     \* GetAll calls completed
    \* InMemoryStackRepository
    m_stacks,                   \* the map stackUUID -> Stack
    st_lastOp,                  \* history: the last writer operation and its argument
    \* DataCollectorService
    col_running,                \* m_running
    col_pc,                     \* the collector thread: "none", "loop", "boardinfo",
                                \* "stackinfo", "wait", "exited"
    col_stop_pc,                \* a Stop call in progress: "idle", "join"
    col_tick,                   \* ticks completed
    col_nThreads,               \* history: collector threads created and not yet
                                \* joined
    lastBoardRes,               \* history: the HTTP exchange of the last phase A
    lastStackRes,               \* history: the HTTP exchange of the last phase B
    \* InMemoryAlertRepository and the system clock
    m_alerts,                   \* the map alertUUID -> Alert
    now,                        \* the system clock, in seconds
    al_flip,                    \* history: flips at every repository operation
    al_nCreated,                \* history: alerts created so far
    al_lastOp,                  \* history: the last repository operation, the
                                \* argument of RemoveExpired and what it returned
    \* CommandListener
    lst_running,                \* m_running
    lst_socketOpen,             \* m_socketFd >= 0
    lst_pc,                     \* the listener thread: "none", "check", "recvfrom",
                                \* "process", "exited"
    lst_stop_pc,                \* a Stop call in progress: "idle", "join", "close"
    lst_inbox,                  \* datagrams queued on the command socket
    lst_buffer,                 \* the datagram recvfrom returned
    lst_response,               \* the last CommandResponse sent
    lst_nSent,                  \* datagrams sent to the command port so far
    \* StateBroadcaster
    bc_running,                 \* m_running
    bc_socketOpen,              \* m_socketFd >= 0
    bc_pc,                      \* the broadcast thread: "none", "check", "chassis",
                                \* "alerts", "labels", "sleep", "exited"
    bc_stop_pc,                 \* a Stop call in progress: "idle", "join", "close"
    m_sequenceNumber,           \* uint32_t m_sequenceNumber
    bc_responseID,              \* the static uint32_t responseID
    bc_tick,                    \* iterations of BroadcastLoop completed
    bc_lastOp,                  \* history: the last broadcast function that ran, the
                                \* number of entries it read and the packets it sent
    \* the network
    net_last,                   \* history: the last packet sent other than the
                                \* board-status packet, or NoPacket
    \* WebhookListener
    wh_running,                 \* m_running
    wh_pc,                      \* the server thread: "none", "listen", "exited"
    wh_stop_pc,                 \* a Stop call in progress: "idle", "join"
    \* ApplicationBootstrap on the main thread
    main_pc,                    \* "init", then the Start or Stop call it is at
    \* InMemoryAlertRepository::m_mutex and the calls that hold it over
    \* several steps
    al_mutex,                   \* "free", "shared" or "exclusive"
    am_pc,                      \* an AcknowledgeMultiple call: "idle", "loop"
    am_alertUUIDs,              \* its argument
    am_idx,                     \* the next element of alertUUIDs
    am_count,                   \* its local count
    ga_pc,                      \* a GetUnacknowledged call: "idle", "locked"
    ga_result,                  \* what the last GetUnacknowledged returned
    \* InMemoryStackRepository::m_mutex and the calls that hold it over
    \* several steps
    st_mutex,                   \* "free", "shared" or "exclusive"
    ss_pc,                      \* a SaveAll call: "idle", "loop"
    ss_stacks,                  \* its argument
    ss_idx,                     \* the next element of stacks
    sg_pc,                      \* a GetAll call: "idle", "locked"
    sg_result,                  \* what the last GetAll returned
    \* StackControlService and the WebhookListener's routes
    ctl_last,                   \* history: the last DeployByLabels or UndeployByLabels
                                \* call, what it posted to the backend and what
                                \* it returned
    wh_last,                    \* history: the last webhook request handled and the
                                \* HTTP status it was answered with
    ack_last,                   \* history: the last AcknowledgeAlert call, what the
                                \* repository returned and whether the alert was
                                \* acknowledged before
    ch_last                     \* history: the last Save or SaveAll call made on the
                                \* chassis repository in one piece, and its argument

chassisVars == <<m_buffer_A, m_buffer_B, m_activeBuffer, m_backBuffer>>
saveVars == <<sv_pc, sv_allChassis, sv_idx, sv_oldActive, nCommits, committed>>
readerVars == <<rd_pc, rd_active, rd_idx, rd_result, rd_atLoad, rd_swaps, rd_late, nReads>>

stackVars == <<m_stacks, st_lastOp>>
collectorVars == <<col_running, col_pc, col_stop_pc, col_tick, col_nThreads, lastBoardRes,
                   lastStackRes>>

alertVars == <<m_alerts, now, al_flip, al_nCreated, al_lastOp>>
listenerVars == <<lst_running, lst_socketOpen, lst_pc, lst_stop_pc, lst_inbox,
                  lst_buffer, lst_response, lst_nSent>>

broadcasterVars == <<bc_running, bc_socketOpen, bc_pc, bc_stop_pc, m_sequenceNumber,
                     bc_responseID, bc_tick, bc_lastOp>>
netVars == <<net_last>>
webhookVars == <<wh_running, wh_pc, wh_stop_pc>>
mainVars == <<main_pc>>
alertLockVars == <<al_mutex, am_pc, am_alertUUIDs, am_idx, am_count, ga_pc, ga_result>>
stackLockVars == <<st_mutex, ss_pc, ss_stacks, ss_idx, sg_pc, sg_result>>
lockVars == <<alertLockVars, stackLockVars>>
callVars == <<ctl_last, wh_last, ack_last, ch_last>>

vars == <<chassisVars, saveVars, readerVars, stackVars, collectorVars, alertVars,
          listenerVars, broadcasterVars, netVars, webhookVars, mainVars, lockVars, callVars>>

\* what the operations of one component leave alone
notBuffer == <<stackVars, collectorVars, alertVars, listenerVars, broadcasterVars,
               netVars, webhookVars, mainVars,
               lockVars, callVars>>
notCollector == <<saveVars, readerVars, alertVars, listenerVars, broadcasterVars,
                  netVars, webhookVars, mainVars,
                  lockVars, callVars>>
notStackRepo == <<chassisVars, saveVars, readerVars, collectorVars, alertVars, listenerVars,
                  broadcasterVars, netVars, webhookVars, mainVars,
                  lockVars, callVars>>
notAlertRepo == <<chassisVars, saveVars, readerVars, stackVars, collectorVars, listenerVars,
                  broadcasterVars, netVars, webhookVars, mainVars,
                  lockVars, callVars>>
notListener == <<chassisVars, saveVars, readerVars, stackVars, collectorVars,
                 broadcasterVars, webhookVars, mainVars,
                 lockVars, callVars>>
notAlertLock == <<chassisVars, saveVars, readerVars, stackVars, collectorVars, listenerVars,
                  broadcasterVars, netVars, webhookVars, mainVars, stackLockVars, callVars>>
notStackLock == <<chassisVars, saveVars, readerVars, collectorVars, alertVars, listenerVars,
                  broadcasterVars, netVars, webhookVars, mainVars, alertLockVars, callVars>>
notBroadcaster == <<chassisVars, saveVars, readerVars, stackVars, collectorVars, alertVars,
                    listenerVars, webhookVars, mainVars,
                    lockVars, callVars>>
notControl == <<chassisVars, saveVars, readerVars, stackVars, collectorVars, alertVars,
                listenerVars, broadcasterVars, netVars, webhookVars, mainVars, lockVars,
                wh_last, ack_last, ch_last>>
notWebhook == <<chassisVars, saveVars, readerVars, stackVars, collectorVars, alertVars,
                listenerVars, broadcasterVars, netVars, mainVars,
                lockVars, callVars>>

(***************************************************************************)
(* std::shared_mutex: a std::unique_lock is granted when nobody holds the  *)
(* mutex, a std::shared_lock when no writer holds it.                      *)
(***************************************************************************)
UniqueLockable(mutex) == mutex = "free"

SharedLockable(mutex) == mutex # "exclusive"

(***************************************************************************)
(* InMemoryChassisRepository.                                              *)
(***************************************************************************)
Buffer(p) == IF p = "A" THEN m_buffer_A ELSE m_buffer_B

\* GetAll, read in one piece
GetAll == Buffer(m_activeBuffer)

\* Initialize(initialChassis), called once at startup before any thread runs
Initialize(initialChassis) ==
    /\ m_buffer_A = initialChassis
    /\ m_buffer_B = initialChassis
    /\ m_activeBuffer = "A"
    /\ m_backBuffer = "B"

\* the constructor: both buffers hold default chassis, A is active
InMemoryChassisRepository_New ==
    /\ m_buffer_A = [i \in 1..NumChassis |-> DefaultChassis]
    /\ m_buffer_B = [i \in 1..NumChassis |-> DefaultChassis]
    /\ m_activeBuffer = "A"
    /\ m_backBuffer = "B"

\* a SaveAll that exchanges the pointers before it writes the new data
SaveAll_ExchangeFirst(allChassis) ==
    /\ IF m_activeBuffer = "A"
       THEN m_buffer_A' = allChassis /\ UNCHANGED m_buffer_B
       ELSE m_buffer_B' = allChassis /\ UNCHANGED m_buffer_A
    /\ m_activeBuffer' = m_backBuffer
    /\ m_backBuffer' = m_activeBuffer

\* SaveAll(allChassis), run in one piece
SaveAll(allChassis) ==
    /\ IF m_backBuffer = "A"
       THEN m_buffer_A' = allChassis /\ UNCHANGED m_buffer_B
       ELSE m_buffer_B' = allChassis /\ UNCHANGED m_buffer_A
    /\ m_activeBuffer' = m_backBuffer
    /\ m_backBuffer' = m_activeBuffer

\* Save(chassis), run in one piece: the chassis is assigned to its element of
\* the back buffer when its number is one of the repository's
Save(chassis) ==
    /\ IF chassis.m_chassisNumber - 1 >= 0 /\ chassis.m_chassisNumber - 1 < NumChassis
       THEN IF m_backBuffer = "A"
            THEN /\ m_buffer_A' = [m_buffer_A EXCEPT ![chassis.m_chassisNumber] = chassis]
                 /\ UNCHANGED m_buffer_B
            ELSE /\ m_buffer_B' = [m_buffer_B EXCEPT ![chassis.m_chassisNumber] = chassis]
                 /\ UNCHANGED m_buffer_A
       ELSE UNCHANGED <<m_buffer_A, m_buffer_B>>
    /\ UNCHANGED <<m_activeBuffer, m_backBuffer>>

\* FindByNumber(chassisNumber), read in one piece
FindByNumber(chassisNumber) ==
    IF chassisNumber < 1 \/ chassisNumber > NumChassis THEN None
    ELSE IF GetAll[chassisNumber].m_chassisNumber = 0 THEN None
    ELSE Some(GetAll[chassisNumber])

\* Chassis::GetBoardByAddress(address) # nullptr
Chassis_HasBoardAddress(chassis, address) ==
    \E s \in 1..BOARDS_PER_CHASSIS : chassis.m_boards[s].m_boardAddress = address

\* FindByBoardAddress(boardAddress): the first initialized chassis that has
\* a board of that address
FindByBoardAddress(boardAddress) ==
    LET found == {i \in 1..NumChassis :
                     /\ GetAll[i].m_chassisNumber # 0
                     /\ Chassis_HasBoardAddress(GetAll[i], boardAddress)}
    IN  IF found = {} THEN None
        ELSE Some(GetAll[CHOOSE i \in found : \A j \in found : i <= j])

Chassis_CountNormalBoards(chassis) ==
    Cardinality({s \in 1..BOARDS_PER_CHASSIS : chassis.m_boards[s].m_status = "Normal"})

Chassis_CountAbnormalBoards(chassis) ==
    Cardinality({s \in 1..BOARDS_PER_CHASSIS : IsAbnormal(chassis.m_boards[s])})

Chassis_CountOfflineBoards(chassis) ==
    Cardinality({s \in 1..BOARDS_PER_CHASSIS : chassis.m_boards[s].m_status = "Offline"})

\* the loop of the Count operations over the initialized chassis of the
\* active buffer
CountOverChassis(count(_)) ==
    LET sum[i \in 0..NumChassis] ==
            IF i = 0 THEN 0
            ELSE sum[i - 1] + (IF GetAll[i].m_chassisNumber # 0 THEN count(GetAll[i]) ELSE 0)
    IN  sum[NumChassis]

\* Chassis::CountTotalTasks: the task counts of the boards that can run tasks
Chassis_CountTotalTasks(chassis) ==
    LET sum[s \in 0..BOARDS_PER_CHASSIS] ==
            IF s = 0 THEN 0
            ELSE sum[s - 1] + (IF CanRunTasks(chassis.m_boards[s])
                               THEN chassis.m_boards[s].m_taskCount ELSE 0)
    IN  sum[BOARDS_PER_CHASSIS]

Chassis_BoardCount(chassis) == BOARDS_PER_CHASSIS

CountTotalBoards == CountOverChassis(Chassis_BoardCount)
CountNormalBoards == CountOverChassis(Chassis_CountNormalBoards)
CountAbnormalBoards == CountOverChassis(Chassis_CountAbnormalBoards)
CountOfflineBoards == CountOverChassis(Chassis_CountOfflineBoards)
CountTotalTasks == CountOverChassis(Chassis_CountTotalTasks)

NoStoreCall ==
    [n |-> 0, op |-> "none", chassis |-> DefaultChassis, allChassis |-> CreateFullTopology]

\* a caller's Save(chassis) on the chassis repository
ChassisRepo_Save(chassis) ==
    /\ ch_last.n < MaxStoreCalls
    /\ sv_pc = "idle"
    /\ Save(chassis)
    /\ ch_last' = [n |-> ch_last.n + 1, op |-> "Save", chassis |-> chassis,
                   allChassis |-> ch_last.allChassis]
    /\ UNCHANGED <<saveVars, readerVars, stackVars, collectorVars, alertVars, listenerVars,
                   broadcasterVars, netVars, webhookVars, mainVars, lockVars, ctl_last,
                   wh_last, ack_last>>

\* main's Initialize(initialChassis) on the constructed repository, before
\* any thread is started
ChassisRepo_Initialize(initialChassis) ==
    /\ ch_last.n = 0
    /\ col_pc = "none"
    /\ m_buffer_A' = initialChassis
    /\ m_buffer_B' = initialChassis
    /\ m_activeBuffer' = "A"
    /\ m_backBuffer' = "B"
    /\ ch_last' = [n |-> 1, op |-> "Initialize", chassis |-> ch_last.chassis,
                   allChassis |-> initialChassis]
    /\ UNCHANGED <<saveVars, readerVars, stackVars, collectorVars, alertVars, listenerVars,
                   broadcasterVars, netVars, webhookVars, mainVars, lockVars, ctl_last,
                   wh_last, ack_last>>

\* a caller's SaveAll(allChassis) on the chassis repository
ChassisRepo_SaveAll(allChassis) ==
    /\ ch_last.n < MaxStoreCalls
    /\ sv_pc = "idle"
    /\ SaveAll(allChassis)
    /\ ch_last' = [n |-> ch_last.n + 1, op |-> "SaveAll", chassis |-> ch_last.chassis,
                   allChassis |-> allChassis]
    /\ UNCHANGED <<saveVars, readerVars, stackVars, collectorVars, alertVars, listenerVars,
                   broadcasterVars, netVars, webhookVars, mainVars, lockVars, ctl_last,
                   wh_last, ack_last>>

\* SaveAll step 1, one element of  *m_backBuffer = allChassis
SaveAll_Write ==
    /\ sv_pc = "write"
    /\ IF m_backBuffer = "A"
       THEN /\ m_buffer_A' = [m_buffer_A EXCEPT ![sv_idx] = sv_allChassis[sv_idx]]
            /\ UNCHANGED m_buffer_B
       ELSE /\ m_buffer_B' = [m_buffer_B EXCEPT ![sv_idx] = sv_allChassis[sv_idx]]
            /\ UNCHANGED m_buffer_A
    /\ IF sv_idx = NumChassis
       THEN sv_pc' = "exchange" /\ sv_idx' = 0
       ELSE sv_pc' = "write" /\ sv_idx' = sv_idx + 1
    /\ rd_late' = (rd_late \/ (rd_pc = "copy" /\ rd_swaps >= 1))
    /\ UNCHANGED <<m_activeBuffer, m_backBuffer, sv_allChassis, sv_oldActive,
                   nCommits, committed>>
    /\ UNCHANGED <<rd_pc, rd_active, rd_idx, rd_result, rd_atLoad, rd_swaps, nReads>>
    /\ UNCHANGED notBuffer

\* SaveAll step 2,  oldActive = m_activeBuffer.exchange(m_backBuffer)
SaveAll_Exchange ==
    /\ sv_pc = "exchange"
    /\ sv_oldActive' = m_activeBuffer
    /\ m_activeBuffer' = m_backBuffer
    /\ sv_pc' = "rotate"
    /\ committed' = committed \cup {Buffer(m_backBuffer)}
    /\ rd_swaps' = IF rd_pc = "copy" THEN rd_swaps + 1 ELSE rd_swaps
    /\ UNCHANGED <<m_buffer_A, m_buffer_B, m_backBuffer, sv_allChassis, sv_idx, nCommits>>
    /\ UNCHANGED <<rd_pc, rd_active, rd_idx, rd_result, rd_atLoad, rd_late, nReads>>
    /\ UNCHANGED notBuffer

SaveAll_Rotate_Forgotten ==
    /\ sv_pc = "rotate"
    /\ m_backBuffer' = m_backBuffer
    /\ sv_pc' = "idle"
    /\ nCommits' = nCommits + 1
    /\ UNCHANGED <<m_buffer_A, m_buffer_B, m_activeBuffer, sv_allChassis, sv_idx,
                   sv_oldActive, committed>>
    /\ UNCHANGED readerVars
    /\ UNCHANGED notBuffer

\* SaveAll step 3,  m_backBuffer = oldActive
SaveAll_Rotate ==
    /\ sv_pc = "rotate"
    /\ m_backBuffer' = sv_oldActive
    /\ sv_pc' = "idle"
    /\ nCommits' = nCommits + 1
    /\ UNCHANGED <<m_buffer_A, m_buffer_B, m_activeBuffer, sv_allChassis, sv_idx,
                   sv_oldActive, committed>>
    /\ UNCHANGED readerVars
    /\ UNCHANGED notBuffer

\* the writer thread calls SaveAll(allChassis)
SaveAll_Call(allChassis) ==
    /\ sv_pc = "idle"
    /\ nCommits < MaxCommits
    /\ sv_pc' = "write"
    /\ sv_allChassis' = allChassis
    /\ sv_idx' = 1
    /\ UNCHANGED <<sv_oldActive, nCommits, committed>>
    /\ UNCHANGED <<chassisVars, readerVars>>
    /\ UNCHANGED notBuffer

\* GetAll,  active = m_activeBuffer.load()
GetAll_Load ==
    /\ rd_pc = "idle"
    /\ nReads < MaxReads
    /\ rd_pc' = "copy"
    /\ rd_active' = m_activeBuffer
    /\ rd_idx' = 1
    /\ rd_result' = <<>>
    /\ rd_atLoad' = Buffer(m_activeBuffer)
    /\ rd_swaps' = 0
    /\ rd_late' = FALSE
    /\ UNCHANGED <<nReads, chassisVars, saveVars>>
    /\ UNCHANGED notBuffer

\* GetAll, one element of  return *active
GetAll_Copy ==
    /\ rd_pc = "copy"
    /\ rd_result' = Append(rd_result, Buffer(rd_active)[rd_idx])
    /\ IF rd_idx = NumChassis
       THEN rd_pc' = "done" /\ rd_idx' = 0
       ELSE rd_pc' = "copy" /\ rd_idx' = rd_idx + 1
    /\ UNCHANGED <<rd_active, rd_atLoad, rd_swaps, rd_late, nReads, chassisVars, saveVars>>
    /\ UNCHANGED notBuffer

\* the caller takes the returned array
GetAll_Return ==
    /\ rd_pc = "done"
    /\ rd_pc' = "idle"
    /\ nReads' = nReads + 1
    /\ UNCHANGED <<rd_active, rd_idx, rd_result, rd_atLoad, rd_swaps, rd_late,
                   chassisVars, saveVars>>
    /\ UNCHANGED notBuffer

(***************************************************************************)
(* The snapshots the writer commits in SpecBuffer: the topology as phase A *)
(* leaves it for three backend reports.                                    *)
(***************************************************************************)
ReportAllNormal ==
    <<BoardInfoData(BoardAddress(1, 1), 0, <<>>), BoardInfoData(BoardAddress(2, 1), 0, <<>>)>>

ReportAllAbnormal ==
    <<BoardInfoData(BoardAddress(1, 1), 1, <<>>), BoardInfoData(BoardAddress(2, 1), 1, <<>>)>>

BufferSnapshots ==
    {UpdateAllChassis(CreateFullTopology, r) : r \in {<<>>, ReportAllNormal, ReportAllAbnormal}}

(***************************************************************************)
(* InMemoryStackRepository: the writer operations.                         *)
(***************************************************************************)
BatchUUIDs(stacks) == {stacks[i].m_stackUUID : i \in 1..Len(stacks)}

StackRepo_Save(stack) ==
    /\ UniqueLockable(st_mutex)
    /\ m_stacks' = StackRepository_Save(m_stacks, stack)
    /\ st_lastOp' = [op |-> "Save", stacks |-> <<stack>>]
    /\ UNCHANGED notStackRepo

StackRepo_Remove(stackUUID) ==
    /\ UniqueLockable(st_mutex)
    /\ m_stacks' = StackRepository_Remove(m_stacks, stackUUID)
    /\ st_lastOp' = [op |-> "Remove", stacks |-> <<>>]
    /\ UNCHANGED notStackRepo

StackRepo_Clear ==
    /\ UniqueLockable(st_mutex)
    /\ m_stacks' = StackRepository_Clear(m_stacks)
    /\ st_lastOp' = [op |-> "Clear", stacks |-> <<>>]
    /\ UNCHANGED notStackRepo

(***************************************************************************)
(* InMemoryStackRepository, the calls that hold m_mutex over several       *)
(* steps: SaveAll on one thread, GetAll on another.                        *)
(***************************************************************************)
\* SaveAll entered without taking m_mutex
StackSaveAll_Lock_Forgotten(stacks) ==
    /\ ss_pc = "idle"
    /\ ss_pc' = "loop"
    /\ ss_stacks' = stacks
    /\ ss_idx' = 1
    /\ UNCHANGED <<st_mutex, sg_pc, sg_result>>
    /\ UNCHANGED <<stackVars, notStackLock>>

\* SaveAll:  std::unique_lock lock(m_mutex)
StackSaveAll_Lock(stacks) ==
    /\ ss_pc = "idle"
    /\ UniqueLockable(st_mutex)
    /\ st_mutex' = "exclusive"
    /\ ss_pc' = "loop"
    /\ ss_stacks' = stacks
    /\ ss_idx' = 1
    /\ UNCHANGED <<sg_pc, sg_result>>
    /\ UNCHANGED <<stackVars, notStackLock>>

\* SaveAll: one iteration of  for (const auto& stack : stacks)
StackSaveAll_Step ==
    /\ ss_pc = "loop"
    /\ ss_idx <= Len(ss_stacks)
    /\ m_stacks' = StackRepository_Save(m_stacks, ss_stacks[ss_idx])
    /\ ss_idx' = ss_idx + 1
    /\ UNCHANGED <<st_mutex, ss_pc, ss_stacks, sg_pc, sg_result>>
    /\ UNCHANGED <<st_lastOp, notStackLock>>

\* SaveAll returns; the lock is released
StackSaveAll_Return ==
    /\ ss_pc = "loop"
    /\ ss_idx > Len(ss_stacks)
    /\ ss_pc' = "idle"
    /\ st_mutex' = "free"
    /\ st_lastOp' = [op |-> "SaveAll", stacks |-> ss_stacks]
    /\ UNCHANGED <<ss_stacks, ss_idx, sg_pc, sg_result>>
    /\ UNCHANGED <<m_stacks, notStackLock>>

\* GetAll:  std::shared_lock lock(m_mutex)
StackGetAll_Lock ==
    /\ sg_pc = "idle"
    /\ SharedLockable(st_mutex)
    /\ st_mutex' = "shared"
    /\ sg_pc' = "locked"
    /\ UNCHANGED <<ss_pc, ss_stacks, ss_idx, sg_result>>
    /\ UNCHANGED <<stackVars, notStackLock>>

\* GetAll: the stacks are copied, the lock is released
StackGetAll_Return ==
    /\ sg_pc = "locked"
    /\ sg_result' = StackRepository_GetAll(m_stacks)
    /\ sg_pc' = "idle"
    /\ st_mutex' = IF st_mutex = "shared" THEN "free" ELSE st_mutex
    /\ UNCHANGED <<ss_pc, ss_stacks, ss_idx>>
    /\ UNCHANGED <<stackVars, notStackLock>>

(***************************************************************************)
(* DataCollectorService.                                                   *)
(***************************************************************************)
\* Start() without the test of m_running: a thread is created by every call
Collector_StartCall_Unconditional ==
    /\ col_stop_pc = "idle"
    /\ col_running' = TRUE
    /\ col_pc' = "loop"
    /\ col_nThreads' = col_nThreads + 1
    /\ UNCHANGED <<col_stop_pc, col_tick, lastBoardRes, lastStackRes>>

\* Start(), what it does to the service:  if (m_running.exchange(true)) return;
\* m_thread = std::thread(&DataCollectorService::CollectLoop, this)
Collector_StartCall ==
    /\ col_stop_pc = "idle"
    /\ IF col_running
       THEN UNCHANGED <<col_running, col_pc, col_nThreads>>
       ELSE /\ col_running' = TRUE
            /\ col_pc' = "loop"
            /\ col_nThreads' = col_nThreads + 1
    /\ UNCHANGED <<col_stop_pc, col_tick, lastBoardRes, lastStackRes>>

\* Start()
Collector_Start ==
    /\ Collector_StartCall
    /\ UNCHANGED <<chassisVars, stackVars, notCollector>>

\* Stop(), what it does to the service up to m_thread.join()
Collector_StopCall ==
    /\ col_stop_pc = "idle"
    /\ col_running' = FALSE
    /\ col_stop_pc' = IF col_running THEN "join" ELSE "idle"
    /\ UNCHANGED <<col_pc, col_tick, col_nThreads, lastBoardRes, lastStackRes>>

\* Stop(), up to m_thread.join()
Collector_Stop ==
    /\ Collector_StopCall
    /\ UNCHANGED <<chassisVars, stackVars, notCollector>>

\* Stop(), m_thread.join() returns
Collector_Join ==
    /\ col_stop_pc = "join"
    /\ col_pc = "exited"
    /\ col_pc' = "none"
    /\ col_stop_pc' = "idle"
    /\ col_nThreads' = col_nThreads - 1
    /\ UNCHANGED <<col_running, col_tick, lastBoardRes, lastStackRes>>
    /\ UNCHANGED <<chassisVars, stackVars, notCollector>>

\* CollectLoop: the outer  while (m_running.load())
CollectLoop_Check ==
    /\ col_pc = "loop"
    /\ col_running => col_tick < MaxTicks
    /\ col_pc' = IF col_running THEN "boardinfo" ELSE "exited"
    /\ UNCHANGED <<col_running, col_stop_pc, col_tick, col_nThreads, lastBoardRes,
                   lastStackRes>>
    /\ UNCHANGED <<chassisVars, stackVars, notCollector>>

\* CollectLoop: CollectBoardInfo(), the backend answering with res
CollectBoardInfo(res) ==
    /\ col_pc = "boardinfo"
    /\ LET boardInfosOpt == GetBoardInfo(res)
       IN  IF ~boardInfosOpt.has_value
           THEN UNCHANGED chassisVars
           ELSE SaveAll(UpdateAllChassis(GetAll, boardInfosOpt.value))
    /\ col_pc' = "stackinfo"
    /\ lastBoardRes' = res
    /\ UNCHANGED <<col_running, col_stop_pc, col_tick, col_nThreads, lastStackRes>>
    /\ UNCHANGED <<stackVars, notCollector>>

\* CollectLoop: CollectStackInfo(), the backend answering with res
CollectStackInfo(res) ==
    /\ col_pc = "stackinfo"
    /\ GetStackInfo(res).has_value => UniqueLockable(st_mutex)
    /\ m_stacks' = CollectStackInfo_Stacks(m_stacks, res)
    /\ LET stackInfosOpt == GetStackInfo(res)
       IN  IF ~stackInfosOpt.has_value
           THEN UNCHANGED st_lastOp
           ELSE st_lastOp' = [op |-> "SaveAll",
                              stacks |-> ConvertStacks(stackInfosOpt.value)]
    /\ col_pc' = "wait"
    /\ col_tick' = col_tick + 1
    /\ lastStackRes' = res
    /\ UNCHANGED <<col_running, col_stop_pc, col_nThreads, lastBoardRes>>
    /\ UNCHANGED <<chassisVars, notCollector>>

\* CollectLoop: the inner wait loop is left, by the interval elapsing or by
\* m_running read false
CollectLoop_Wait ==
    /\ col_pc = "wait"
    /\ col_pc' = "loop"
    /\ UNCHANGED <<col_running, col_stop_pc, col_tick, col_nThreads, lastBoardRes,
                   lastStackRes>>
    /\ UNCHANGED <<chassisVars, stackVars, notCollector>>

(***************************************************************************)
(* The system clock, AlertService and InMemoryAlertRepository.             *)
(***************************************************************************)
Clock_Tick ==
    /\ now < MaxTime
    /\ now' = now + 1
    /\ UNCHANGED <<m_alerts, al_flip, al_nCreated, al_lastOp>>
    /\ UNCHANGED notAlertRepo

\* AlertService::HandleBoardAlert for the board at location: what it does to
\* the alert repository
HandleBoardAlert_Call(location, alertMessages, random) ==
    /\ al_nCreated < MaxAlerts
    /\ UniqueLockable(al_mutex)
    /\ al_nCreated' = al_nCreated + 1
    /\ LET alertUUID == GenerateAlertUUID("alert-board", now, random)
           alert == CreateBoardAlert(alertUUID, location, alertMessages, now)
       IN  /\ m_alerts' = AlertRepository_Save(m_alerts, alert)
           /\ al_lastOp' = [op |-> "Save", arg |-> 0, result |-> 0]
    /\ al_flip' = ~al_flip
    /\ UNCHANGED now

\* a handler that, besides saving the alert, writes the chassis repository
HandleBoardAlert_UpdatingChassis(boardAddress, alertMessages, random) ==
    /\ al_nCreated < MaxAlerts
    /\ UniqueLockable(al_mutex)
    /\ al_nCreated' = al_nCreated + 1
    /\ LET alertUUID == GenerateAlertUUID("alert-board", now, random)
           alert == CreateBoardAlert(alertUUID, LocationInfo(1, 1, boardAddress),
                                     alertMessages, now)
       IN  /\ m_alerts' = AlertRepository_Save(m_alerts, alert)
           /\ al_lastOp' = [op |-> "Save", arg |-> 0, result |-> 0]
    /\ al_flip' = ~al_flip
    /\ SaveAll(UpdateAllChassis(GetAll, <<>>))
    /\ UNCHANGED now
    /\ UNCHANGED <<saveVars, readerVars, stackVars, collectorVars, listenerVars,
                   broadcasterVars, netVars, webhookVars, mainVars, lockVars, callVars>>

\* AlertService::HandleBoardAlert: a board alert is created and saved
HandleBoardAlert(boardAddress, alertMessages, random) ==
    /\ HandleBoardAlert_Call(LocationInfo(1, 1, boardAddress), alertMessages, random)
    /\ UNCHANGED notAlertRepo

\* InMemoryAlertRepository::Acknowledge
AlertRepo_Acknowledge(alertUUID) ==
    /\ UniqueLockable(al_mutex)
    /\ LET r == AlertRepository_Acknowledge(m_alerts, alertUUID)
       IN  /\ m_alerts' = r.alerts
           /\ al_lastOp' = [op |-> "Acknowledge", arg |-> 0,
                            result |-> IF r.found THEN 1 ELSE 0]
    /\ al_flip' = ~al_flip
    /\ UNCHANGED <<now, al_nCreated>>
    /\ UNCHANGED notAlertRepo

\* InMemoryAlertRepository::RemoveExpired; the clock ticks after tickAt
\* alerts were tested, or not at all during the call
AlertRepo_RemoveExpired(maxAgeSeconds, tickAt) ==
    /\ UniqueLockable(al_mutex)
    /\ tickAt < Cardinality(DOMAIN m_alerts) => now < MaxTime
    /\ LET before(u) == Cardinality({v \in DOMAIN m_alerts : UUIDLess(v, u)})
           clock == [u \in DOMAIN m_alerts |-> IF before(u) < tickAt THEN now ELSE now + 1]
           r == AlertRepository_RemoveExpired(m_alerts, maxAgeSeconds, clock)
       IN  /\ m_alerts' = r.alerts
           /\ al_lastOp' = [op |-> "RemoveExpired", arg |-> maxAgeSeconds,
                            result |-> r.removedCount]
    /\ now' = IF tickAt < Cardinality(DOMAIN m_alerts) THEN now + 1 ELSE now
    /\ al_flip' = ~al_flip
    /\ UNCHANGED al_nCreated
    /\ UNCHANGED notAlertRepo

(***************************************************************************)
(* InMemoryAlertRepository, the calls that hold m_mutex over several       *)
(* steps: AcknowledgeMultiple on one thread, GetUnacknowledged on another. *)
(***************************************************************************)
\* AcknowledgeMultiple entered without taking m_mutex
AcknowledgeMultiple_Lock_Forgotten(alertUUIDs) ==
    /\ am_pc = "idle"
    /\ am_pc' = "loop"
    /\ am_alertUUIDs' = alertUUIDs
    /\ am_idx' = 1
    /\ am_count' = 0
    /\ UNCHANGED <<al_mutex, ga_pc, ga_result>>
    /\ UNCHANGED <<alertVars, notAlertLock>>

\* AcknowledgeMultiple:  std::unique_lock lock(m_mutex); size_t count = 0
AcknowledgeMultiple_Lock(alertUUIDs) ==
    /\ am_pc = "idle"
    /\ UniqueLockable(al_mutex)
    /\ al_mutex' = "exclusive"
    /\ am_pc' = "loop"
    /\ am_alertUUIDs' = alertUUIDs
    /\ am_idx' = 1
    /\ am_count' = 0
    /\ UNCHANGED <<ga_pc, ga_result>>
    /\ UNCHANGED <<alertVars, notAlertLock>>

\* AcknowledgeMultiple: one iteration of  for (const auto& uuid : alertUUIDs)
AcknowledgeMultiple_Step ==
    /\ am_pc = "loop"
    /\ am_idx <= Len(am_alertUUIDs)
    /\ LET r == AlertRepository_Acknowledge(m_alerts, am_alertUUIDs[am_idx])
       IN  /\ m_alerts' = r.alerts
           /\ am_count' = IF r.found THEN am_count + 1 ELSE am_count
    /\ am_idx' = am_idx + 1
    /\ UNCHANGED <<al_mutex, am_pc, am_alertUUIDs, ga_pc, ga_result>>
    /\ UNCHANGED <<now, al_flip, al_nCreated, al_lastOp>>
    /\ UNCHANGED notAlertLock

\* AcknowledgeMultiple:  return count;  the lock is released
AcknowledgeMultiple_Return ==
    /\ am_pc = "loop"
    /\ am_idx > Len(am_alertUUIDs)
    /\ am_pc' = "idle"
    /\ al_mutex' = "free"
    /\ al_lastOp' = [op |-> "AcknowledgeMultiple", arg |-> 0, result |-> am_count]
    /\ al_flip' = ~al_flip
    /\ UNCHANGED <<am_alertUUIDs, am_idx, am_count, ga_pc, ga_result>>
    /\ UNCHANGED <<m_alerts, now, al_nCreated>>
    /\ UNCHANGED notAlertLock

\* GetUnacknowledged:  std::shared_lock lock(m_mutex)
GetUnacknowledged_Lock ==
    /\ ga_pc = "idle"
    /\ SharedLockable(al_mutex)
    /\ al_mutex' = "shared"
    /\ ga_pc' = "locked"
    /\ UNCHANGED <<am_pc, am_alertUUIDs, am_idx, am_count, ga_result>>
    /\ UNCHANGED <<alertVars, notAlertLock>>

\* GetUnacknowledged: the alerts are copied, the lock is released
GetUnacknowledged_Return ==
    /\ ga_pc = "locked"
    /\ ga_result' = AlertRepository_GetUnacknowledged(m_alerts)
    /\ ga_pc' = "idle"
    /\ al_mutex' = IF al_mutex = "shared" THEN "free" ELSE al_mutex
    /\ UNCHANGED <<am_pc, am_alertUUIDs, am_idx, am_count>>
    /\ UNCHANGED <<alertVars, notAlertLock>>

(***************************************************************************)
(* CommandListener.  A datagram is [headerComplete, packetType,            *)
(* commandComplete, commandID, arg]: whether it holds a whole              *)
(* UdpPacketHeader, its packet type, whether it holds the whole command    *)
(* structure of that type, and the command's fields (arg is the label or   *)
(* alert UUID, a tuple).                                                   *)
(***************************************************************************)
Datagram(headerComplete, packetType, commandComplete, commandID, arg) ==
    [headerComplete |-> headerComplete, packetType |-> packetType,
     commandComplete |-> commandComplete, commandID |-> commandID, arg |-> arg]

NoDatagram == Datagram(FALSE, "", FALSE, 0, <<>>)

\* what the network sees of a packet that starts with a UdpPacketHeader: its
\* type, its header's sequence number and its alertCount or stackCount
Packet(packetType, sequenceNumber, count) ==
    [packetType |-> packetType, sequenceNumber |-> sequenceNumber, count |-> count]

NoPacket == Packet("", <<>>, 0)

\* UdpPacketHeader(): sequenceNumber(0), as a uint32_t
UdpPacketHeader_sequenceNumber == <<0, 0>>

\* the packet SendCommandResponse builds: the header keeps the sequence
\* number its constructor gave it
CommandResponsePacket == Packet("CommandResponse", UdpPacketHeader_sequenceNumber, 0)

NoCommandResponse == [commandID |-> 0, originalCommandType |-> "", result |-> ""]

\* a response that names the response's own packet type as the command type
CommandResponse_OwnType(commandID, originalCommandType, success) ==
    [commandID |-> commandID, originalCommandType |-> "CommandResponse",
     result |-> IF success THEN "Success" ELSE "Failed"]

CommandResponse(commandID, originalCommandType, success) ==
    [commandID |-> commandID, originalCommandType |-> originalCommandType,
     result |-> IF success THEN "Success" ELSE "Failed"]

\* Start(): the sockets are created and the thread is started, or a system
\* call fails and Start returns false
Listener_StartCall(ok) ==
    /\ lst_stop_pc = "idle"
    /\ IF lst_running \/ ~ok
       THEN UNCHANGED listenerVars
       ELSE /\ lst_socketOpen' = TRUE
            /\ lst_running' = TRUE
            /\ lst_pc' = "check"
            /\ lst_inbox' = <<>>
            /\ UNCHANGED <<lst_stop_pc, lst_buffer, lst_response, lst_nSent>>

Listener_Start(ok) ==
    /\ Listener_StartCall(ok)
    /\ UNCHANGED <<alertVars, netVars, notListener>>

\* Stop(), up to m_listenerThread.join()
Listener_StopCall ==
    /\ lst_stop_pc = "idle"
    /\ IF ~lst_running
       THEN UNCHANGED listenerVars
       ELSE /\ lst_running' = FALSE
            /\ lst_stop_pc' = "join"
            /\ UNCHANGED <<lst_socketOpen, lst_pc, lst_inbox, lst_buffer, lst_response,
                           lst_nSent>>

Listener_Stop ==
    /\ Listener_StopCall
    /\ UNCHANGED <<alertVars, netVars, notListener>>

\* Stop(), m_listenerThread.join() returns
Listener_Join ==
    /\ lst_stop_pc = "join"
    /\ lst_pc = "exited"
    /\ lst_pc' = "none"
    /\ lst_stop_pc' = "close"
    /\ UNCHANGED <<lst_running, lst_socketOpen, lst_inbox, lst_buffer, lst_response,
                   lst_nSent>>
    /\ UNCHANGED <<alertVars, netVars, notListener>>

\* Stop(), the sockets are closed and Stop returns
Listener_Close ==
    /\ lst_stop_pc = "close"
    /\ lst_socketOpen' = FALSE
    /\ lst_inbox' = <<>>
    /\ lst_stop_pc' = "idle"
    /\ UNCHANGED <<lst_running, lst_pc, lst_buffer, lst_response, lst_nSent>>
    /\ UNCHANGED <<alertVars, netVars, notListener>>

\* a front end sends a datagram to the command port
Datagram_Arrive(d) ==
    /\ lst_socketOpen
    /\ lst_nSent < MaxDatagrams
    /\ lst_inbox' = Append(lst_inbox, d)
    /\ lst_nSent' = lst_nSent + 1
    /\ UNCHANGED <<lst_running, lst_socketOpen, lst_pc, lst_stop_pc, lst_buffer,
                   lst_response>>
    /\ UNCHANGED <<alertVars, netVars, notListener>>

\* ListenLoop:  while (m_running.load())
ListenLoop_Check ==
    /\ lst_pc = "check"
    /\ lst_pc' = IF lst_running THEN "recvfrom" ELSE "exited"
    /\ UNCHANGED <<lst_running, lst_socketOpen, lst_stop_pc, lst_inbox, lst_buffer,
                   lst_response, lst_nSent>>
    /\ UNCHANGED <<alertVars, netVars, notListener>>

\* ListenLoop: the blocking recvfrom returns a queued datagram
ListenLoop_Recv ==
    /\ lst_pc = "recvfrom"
    /\ lst_inbox # <<>>
    /\ lst_inbox' = Tail(lst_inbox)
    /\ IF Head(lst_inbox).headerComplete
       THEN lst_pc' = "process" /\ lst_buffer' = Head(lst_inbox)
       ELSE lst_pc' = "check" /\ UNCHANGED lst_buffer
    /\ UNCHANGED <<lst_running, lst_socketOpen, lst_stop_pc, lst_response, lst_nSent>>
    /\ UNCHANGED <<alertVars, netVars, notListener>>

\* ListenLoop: recvfrom returns an error
ListenLoop_RecvError ==
    /\ lst_pc = "recvfrom"
    /\ lst_pc' = IF lst_running THEN "check" ELSE "exited"
    /\ UNCHANGED <<lst_running, lst_socketOpen, lst_stop_pc, lst_inbox, lst_buffer,
                   lst_response, lst_nSent>>
    /\ UNCHANGED <<alertVars, netVars, notListener>>

NoAckCall ==
    [alertUUID |-> <<>>, again |-> FALSE, response |-> ResponseDTO_Failure("", FALSE)]

\* AlertService::AcknowledgeAlert(alertUUID) on the repository alerts: the
\* ResponseDTO it returns; again tells whether the alert was acknowledged
\* before the call
AckCall(alerts, alertUUID) ==
    [alertUUID |-> alertUUID,
     again |-> alertUUID \in DOMAIN alerts /\ alerts[alertUUID].m_isAcknowledged,
     response |-> IF AlertRepository_Acknowledge(alerts, alertUUID).found
                  THEN ResponseDTO_Success(TRUE, "alert acknowledged")
                  ELSE ResponseDTO_Failure("alert does not exist", FALSE)]

\* HandleDeployStack / HandleUndeployStack: the name of the service call
ControlOpOf(packetType) ==
    IF packetType = "DeployStack" THEN "DeployByLabels" ELSE "UndeployByLabels"

\* ListenLoop: ProcessCommand(buffer, recvLen); res is the HTTP exchange with
\* the backend, should the command reach the stack control service
ListenLoop_Process(res) ==
    /\ lst_pc = "process"
    /\ (lst_buffer.commandComplete /\ lst_buffer.packetType = "AcknowledgeAlert")
           => UniqueLockable(al_mutex)
    /\ lst_pc' = "check"
    /\ IF ~lst_buffer.commandComplete
          \/ lst_buffer.packetType \notin {"DeployStack", "UndeployStack", "AcknowledgeAlert"}
       THEN UNCHANGED <<lst_response, alertVars, netVars, ctl_last, ack_last>>
       ELSE /\ net_last' = CommandResponsePacket
            /\ IF lst_buffer.packetType = "AcknowledgeAlert"
               THEN LET r == AlertRepository_Acknowledge(m_alerts, lst_buffer.arg)
                    IN  /\ m_alerts' = r.alerts
                        /\ al_lastOp' = [op |-> "Acknowledge", arg |-> 0,
                                         result |-> IF r.found THEN 1 ELSE 0]
                        /\ al_flip' = ~al_flip
                        /\ UNCHANGED <<now, al_nCreated, ctl_last>>
                        /\ ack_last' = AckCall(m_alerts, lst_buffer.arg)
                        /\ lst_response' = CommandResponse(lst_buffer.commandID,
                                                           lst_buffer.packetType,
                                                           ack_last'.response.success)
               ELSE /\ ctl_last' = ControlCall(ControlOpOf(lst_buffer.packetType),
                                               DeployCommandDTO(<<lst_buffer.arg>>),
                                               res, ctl_last)
                    /\ lst_response' = CommandResponse(lst_buffer.commandID,
                                                       lst_buffer.packetType,
                                                       ctl_last'.response.success)
                    /\ UNCHANGED <<alertVars, ack_last>>
    /\ UNCHANGED <<lst_running, lst_socketOpen, lst_stop_pc, lst_inbox, lst_buffer, lst_nSent>>
    /\ UNCHANGED <<chassisVars, saveVars, readerVars, stackVars, collectorVars,
                   broadcasterVars, webhookVars, mainVars, lockVars, wh_last, ch_last>>

\* AlertService::AcknowledgeAlert called by a front end
AlertService_AcknowledgeAlert(alertUUID) ==
    /\ UniqueLockable(al_mutex)
    /\ LET r == AlertRepository_Acknowledge(m_alerts, alertUUID)
       IN  /\ m_alerts' = r.alerts
           /\ al_lastOp' = [op |-> "Acknowledge", arg |-> 0,
                            result |-> IF r.found THEN 1 ELSE 0]
    /\ al_flip' = ~al_flip
    /\ ack_last' = AckCall(m_alerts, alertUUID)
    /\ UNCHANGED <<now, al_nCreated>>
    /\ UNCHANGED <<chassisVars, saveVars, readerVars, stackVars, collectorVars, listenerVars,
                   broadcasterVars, netVars, webhookVars, mainVars, lockVars, ctl_last,
                   wh_last, ch_last>>

\* StackControlService::DeployByLabels called by a front end
Control_DeployByLabels(command, res) ==
    /\ ctl_last' = ControlCall("DeployByLabels", command, res, ctl_last)
    /\ UNCHANGED notControl

\* StackControlService::UndeployByLabels called by a front end
Control_UndeployByLabels(command, res) ==
    /\ ctl_last' = ControlCall("UndeployByLabels", command, res, ctl_last)
    /\ UNCHANGED notControl

(***************************************************************************)
(* MonitoringService queries and StateBroadcaster.                         *)
(***************************************************************************)
\* uint32_t arithmetic.  A uint32_t is <<hi, lo>>, its two 16-bit halves.
UINT16_MODULUS == 65536

Uint32_Zero == <<0, 0>>

Uint32_Max == <<UINT16_MODULUS - 1, UINT16_MODULUS - 1>>

\* n + 1
Uint32_Inc(n) ==
    IF n[2] + 1 < UINT16_MODULUS
    THEN <<n[1], n[2] + 1>>
    ELSE <<(n[1] + 1) % UINT16_MODULUS, 0>>

\* b - a
Uint32_Sub(b, a) ==
    LET borrow == IF b[2] < a[2] THEN 1 ELSE 0
    IN  <<(b[1] - a[1] - borrow + UINT16_MODULUS) % UINT16_MODULUS,
          (b[2] - a[2] + UINT16_MODULUS) % UINT16_MODULUS>>

\* BroadcastAlerts: if (packet.alertCount >= 32)
ALERTS_PER_PACKET == 32

\* BroadcastStackLabels: if (packet.stackCount >= 64)
STACKS_PER_PACKET == 64

\* The loop of BroadcastAlerts and BroadcastStackLabels over the entries
\* still to add: count entries are in the current packet, whose header holds
\* seq; next is m_sequenceNumber; sent are the packets handed to SendPacket.
RECURSIVE FillPackets(_, _, _, _, _, _, _)
FillPackets(packetType, perPacket, remaining, count, seq, next, sent) ==
    IF remaining = 0
    THEN [sent |-> IF count > 0
                   THEN Append(sent, Packet(packetType, seq, count))
                   ELSE sent,
          sequenceNumber |-> next]
    ELSE IF count >= perPacket
    THEN FillPackets(packetType, perPacket, remaining - 1, 1, next, Uint32_Inc(next),
                     Append(sent, Packet(packetType, seq, count)))
    ELSE FillPackets(packetType, perPacket, remaining - 1, count + 1, seq, next, sent)

\* the body of a broadcast function that also sends a packet when there is no entry
BroadcastPackets_EmptyToo(packetType, perPacket, entries, sequenceNumber) ==
    FillPackets(packetType, perPacket, entries, 0, sequenceNumber,
                Uint32_Inc(sequenceNumber), <<Packet(packetType, sequenceNumber, 0)>>)

\* BroadcastAlerts and BroadcastStackLabels after the query: nothing is done
\* for an empty list; otherwise the first packet takes m_sequenceNumber++
BroadcastPackets(packetType, perPacket, entries, sequenceNumber) ==
    IF entries = 0
    THEN [sent |-> <<>>, sequenceNumber |-> sequenceNumber]
    ELSE FillPackets(packetType, perPacket, entries, 0, sequenceNumber,
                     Uint32_Inc(sequenceNumber), <<>>)

\* MonitoringService::ConvertAlertToDTO, the fields BroadcastAlerts reads
ConvertAlertToDTO(alert) ==
    [alertUUID |-> alert.m_alertUUID, alertType |-> alert.m_alertType,
     timestamp |-> alert.m_timestamp, isAcknowledged |-> alert.m_isAcknowledged,
     relatedEntity |-> alert.m_relatedEntity,
     messages |-> [i \in 1..alert.m_messageCount |-> alert.m_messages[i].message]]

\* MonitoringService::GetUnacknowledgedAlerts: response.data.alerts
GetUnacknowledgedAlerts(alerts) ==
    LET unackAlerts == AlertRepository_GetUnacknowledged(alerts)
    IN  [i \in 1..Len(unackAlerts) |-> ConvertAlertToDTO(unackAlerts[i])]

\* BroadcastAlerts: the Alert it builds in the packet from an AlertDTO
PacketAlert(alertDTO, clock) ==
    LET alert == AddMessages([Alert(alertDTO.alertUUID, alertDTO.alertType)
                                 EXCEPT !.m_timestamp = alertDTO.timestamp,
                                        !.m_relatedEntity = alertDTO.relatedEntity],
                             alertDTO.messages, 1, clock)
    IN  IF alertDTO.isAcknowledged THEN Alert_Acknowledge(alert) ELSE alert

\* BroadcastAlerts: the alerts it places in its packets, in order, packet k
\* holding those of index 32 (k - 1) + 1 .. 32 k
AlertPacketEntries(alerts, clock) ==
    [i \in 1..Len(GetUnacknowledgedAlerts(alerts)) |->
        PacketAlert(GetUnacknowledgedAlerts(alerts)[i], clock)]

\* static_cast<int32_t>(board.GetStatus())
BoardOperationalStatus_Value(status) ==
    IF status = "Normal" THEN 0
    ELSE IF status = "Abnormal" THEN 1
    ELSE IF status = "Offline" THEN 2 ELSE -1

\* MonitoringService::ConvertBoardToDTO: the status as an integer and the
\* statuses of the first m_taskCount tasks
ConvertBoardToDTO(board) ==
    [boardNumber |-> board.m_boardNumber,
     boardStatus |-> BoardOperationalStatus_Value(board.m_status),
     taskCount |-> board.m_taskCount,
     taskStatuses |-> [i \in 1..Min(board.m_taskCount, MAX_TASKS_PER_BOARD) |->
                          board.m_tasks[i].taskStatus]]

\* MonitoringService::ConvertChassisToDTO
ConvertChassisToDTO(chassis) ==
    [chassisNumber |-> chassis.m_chassisNumber,
     boards |-> [i \in 1..Len(chassis.m_boards) |-> ConvertBoardToDTO(chassis.m_boards[i])]]

\* MonitoringService::GetSystemOverview: the chassis of the snapshot whose
\* number is not 0, in the order of the snapshot
GetSystemOverview(allChassis) ==
    LET keep == SelectSeq(allChassis, LAMBDA c : c.m_chassisNumber # 0)
    IN  [i \in 1..Len(keep) |-> ConvertChassisToDTO(keep[i])]

\* MonitoringService::GetSystemOverview called by a front end thread, each
\* call on the repository a step.  rd_result is the local overview.
\* auto allChassis = m_chassisRepo->GetAll() and the conversion loop
GetSystemOverview_GetAll ==
    /\ rd_pc = "idle"
    /\ nReads < MaxReads
    /\ rd_pc' = "totals"
    /\ rd_idx' = 1
    /\ rd_atLoad' = GetAll
    /\ rd_result' = [chassis |-> GetSystemOverview(GetAll),
                     totalChassis |-> Len(GetSystemOverview(GetAll)),
                     totalBoards |-> 0, totalNormalBoards |-> 0,
                     totalAbnormalBoards |-> 0, totalOfflineBoards |-> 0,
                     totalTasks |-> 0]
    /\ UNCHANGED <<rd_active, rd_swaps, rd_late, nReads, chassisVars, saveVars>>
    /\ UNCHANGED notBuffer

\* overview.totalBoards = m_chassisRepo->CountTotalBoards(); and the four
\* assignments after it, one at a step
GetSystemOverview_Count ==
    /\ rd_pc = "totals"
    /\ rd_result' =
          IF rd_idx = 1 THEN [rd_result EXCEPT !.totalBoards = CountTotalBoards]
          ELSE IF rd_idx = 2 THEN [rd_result EXCEPT !.totalNormalBoards = CountNormalBoards]
          ELSE IF rd_idx = 3
          THEN [rd_result EXCEPT !.totalAbnormalBoards = CountAbnormalBoards]
          ELSE IF rd_idx = 4
          THEN [rd_result EXCEPT !.totalOfflineBoards = CountOfflineBoards]
          ELSE [rd_result EXCEPT !.totalTasks = CountTotalTasks]
    /\ IF rd_idx = 5
       THEN rd_pc' = "return" /\ rd_idx' = 0
       ELSE rd_pc' = "totals" /\ rd_idx' = rd_idx + 1
    /\ UNCHANGED <<rd_active, rd_atLoad, rd_swaps, rd_late, nReads, chassisVars, saveVars>>
    /\ UNCHANGED notBuffer

\* return ResponseDTO<SystemOverviewDTO>::Success(overview)
GetSystemOverview_Return ==
    /\ rd_pc = "return"
    /\ rd_pc' = "idle"
    /\ nReads' = nReads + 1
    /\ UNCHANGED <<rd_active, rd_idx, rd_result, rd_atLoad, rd_swaps, rd_late,
                   chassisVars, saveVars>>
    /\ UNCHANGED notBuffer

\* uint8_t boardStates[9][12] and taskStates[9][12][8] of
\* ResourceMonitorResponsePacket, and its commandCode 0xF000
RESPONSE_CHASSIS == 9

RESPONSE_BOARDS == 12

RESPONSE_TASKS == 8

COMMAND_CODE_F000 == 61440

\* a mapping that also reports an abnormal board as 1
BoardStateOf_OnlineAsNormal(boardDTO) == IF boardDTO.boardStatus \in {0, 1} THEN 1 ELSE 0

\* BroadcastChassisStates: boardStatus == 0 gives 1, anything else 0
BoardStateOf(boardDTO) == IF boardDTO.boardStatus = 0 THEN 1 ELSE 0

\* BroadcastChassisStates: the task status string as 0, 1 or 2
TaskStateOf(status) ==
    IF status = "" \/ status = "unknown" THEN 0
    ELSE IF status = "normal" \/ status = "running" THEN 1 ELSE 2

\* BroadcastChassisStates: the arrays are zeroed, then the chassis of the
\* overview whose index chassisNumber - 1 is in 0..8 fill their row: the first
\* 12 boards, and of each board the first 8 task statuses.  When two chassis
\* have one number the later one is written last.  Indices here start at 1.
ResourceMonitorResponsePacket(responseID, overview) ==
    LET rows(c) == {i \in 1..Len(overview) : overview[i].chassisNumber = c}
        last(c) == overview[CHOOSE i \in rows(c) : \A j \in rows(c) : j <= i]
        has(c, s) == rows(c) # {} /\ s <= Len(last(c).boards)
    IN  [commandCode |-> COMMAND_CODE_F000,
         responseID |-> responseID,
         boardStates |->
            [c \in 1..RESPONSE_CHASSIS |-> [s \in 1..RESPONSE_BOARDS |->
                IF has(c, s) THEN BoardStateOf(last(c).boards[s]) ELSE 0]],
         taskStates |->
            [c \in 1..RESPONSE_CHASSIS |-> [s \in 1..RESPONSE_BOARDS |->
                [k \in 1..RESPONSE_TASKS |->
                    IF has(c, s) /\ k <= Len(last(c).boards[s].taskStatuses)
                    THEN TaskStateOf(last(c).boards[s].taskStatuses[k])
                    ELSE 0]]]]

\* BroadcastChassisStates: packet.responseID = responseID++;
\* if (responseID == 0xFFFFFFFF) responseID = 0
NextResponseID(responseID) ==
    IF Uint32_Inc(responseID) = Uint32_Max THEN Uint32_Zero ELSE Uint32_Inc(responseID)

\* Start(), what it does to the broadcaster: the socket is created and the
\* thread is started, or a system call fails and Start returns false
Broadcaster_StartCall(ok) ==
    /\ bc_stop_pc = "idle"
    /\ IF bc_running \/ ~ok
       THEN UNCHANGED broadcasterVars
       ELSE /\ bc_socketOpen' = TRUE
            /\ bc_running' = TRUE
            /\ bc_pc' = "check"
            /\ UNCHANGED <<bc_stop_pc, m_sequenceNumber, bc_responseID, bc_tick, bc_lastOp>>

Broadcaster_Start(ok) ==
    /\ Broadcaster_StartCall(ok)
    /\ UNCHANGED <<netVars, notBroadcaster>>

\* Stop(), what it does to the broadcaster up to m_broadcastThread.join()
Broadcaster_StopCall ==
    /\ bc_stop_pc = "idle"
    /\ IF ~bc_running
       THEN UNCHANGED broadcasterVars
       ELSE /\ bc_running' = FALSE
            /\ bc_stop_pc' = "join"
            /\ UNCHANGED <<bc_socketOpen, bc_pc, m_sequenceNumber, bc_responseID, bc_tick,
                           bc_lastOp>>

\* Stop(), m_broadcastThread.join() returns
Broadcaster_Join ==
    /\ bc_stop_pc = "join"
    /\ bc_pc = "exited"
    /\ bc_pc' = "none"
    /\ bc_stop_pc' = "close"
    /\ UNCHANGED <<bc_running, bc_socketOpen, m_sequenceNumber, bc_responseID, bc_tick,
                   bc_lastOp>>
    /\ UNCHANGED <<netVars, notBroadcaster>>

\* Stop(), the socket is closed and Stop returns
Broadcaster_Close ==
    /\ bc_stop_pc = "close"
    /\ bc_socketOpen' = FALSE
    /\ bc_stop_pc' = "idle"
    /\ UNCHANGED <<bc_running, bc_pc, m_sequenceNumber, bc_responseID, bc_tick, bc_lastOp>>
    /\ UNCHANGED <<netVars, notBroadcaster>>

\* BroadcastLoop:  while (m_running.load())
BroadcastLoop_Check ==
    /\ bc_pc = "check"
    /\ bc_pc' = IF bc_running THEN "chassis" ELSE "exited"
    /\ UNCHANGED <<bc_running, bc_socketOpen, bc_stop_pc, m_sequenceNumber, bc_responseID,
                   bc_tick, bc_lastOp>>
    /\ UNCHANGED <<netVars, notBroadcaster>>

\* BroadcastLoop: the chassis interval has elapsed (due) or not; when it has,
\* m_running is read again and BroadcastChassisStates() is called
BroadcastLoop_Chassis(due) ==
    /\ bc_pc = "chassis"
    /\ IF ~due
       THEN bc_pc' = "alerts" /\ UNCHANGED <<bc_responseID, bc_lastOp>>
       ELSE IF ~bc_running
       THEN bc_pc' = "exited" /\ UNCHANGED <<bc_responseID, bc_lastOp>>
       ELSE /\ bc_pc' = "alerts"
            /\ bc_responseID' = NextResponseID(bc_responseID)
            /\ bc_lastOp' = [op |-> "BroadcastChassisStates", read |-> Len(GetAll),
                             stored |-> Len(GetAll),
                             sent |-> <<ResourceMonitorResponsePacket(
                                           bc_responseID, GetSystemOverview(GetAll))>>]
    /\ UNCHANGED <<bc_running, bc_socketOpen, bc_stop_pc, m_sequenceNumber, bc_tick>>
    /\ UNCHANGED <<netVars, notBroadcaster>>

\* sizeof the structures of udp_protocol.h, alert.h and value_objects.h, all
\* declared under #pragma pack(1): the sum of the sizes of the fields
Sizeof_UdpPacketHeader == 2 + 2 + 4 + 8 + 4 + 4

Sizeof_AlertMessage == 256 + 8

Sizeof_LocationInfo == 64 + 4 + 64 + 4 + 16

Sizeof_Alert ==
    64 + 4 + 8 + 1 + 64 + MAX_ALERT_MESSAGES * Sizeof_AlertMessage + 4
       + Sizeof_LocationInfo + 128 + 64 + 128 + 64 + 64

Sizeof_StackLabelInfo == 128 + 64

Sizeof_StackEntry == 64 + 128 + 4 + 4 + 4 + MAX_LABELS_PER_STACK * Sizeof_StackLabelInfo + 12

\* sizeof(packet), the size every SendPacket call and SendCommandResponse
\* pass to sendto, whatever alertCount or stackCount is
Sizeof_Packet(packetType) ==
    IF packetType = "AlertMessage"
    THEN Sizeof_UdpPacketHeader + 4 + ALERTS_PER_PACKET * Sizeof_Alert + 60
    ELSE IF packetType = "StackLabel"
    THEN Sizeof_UdpPacketHeader + 4 + STACKS_PER_PACKET * Sizeof_StackEntry
    ELSE Sizeof_UdpPacketHeader + 8 + 2 + 2 + 256 + 8

\* sendto on a socket(AF_INET, SOCK_DGRAM, 0): a UDP datagram over IPv4 holds
\* at most 65535 - 20 - 8 bytes; sendto refuses a longer one (EMSGSIZE) and
\* sends nothing.  The callers ignore the return value.
Sendto_Accepts(size) == size <= 65535 - 20 - 8

\* the packets of sent that leave the host
Transmitted(sent) == SelectSeq(sent, LAMBDA p : Sendto_Accepts(Sizeof_Packet(p.packetType)))

\* a broadcast function sends its packets: SendPacket does nothing when
\* m_socketFd < 0.  bc_lastOp keeps the number of entries the query returned
\* (read) and the number the repository held at that time (stored)
Broadcast(op, read, stored, r) ==
    /\ m_sequenceNumber' = r.sequenceNumber
    /\ bc_lastOp' = [op |-> op, read |-> read, stored |-> stored, sent |-> r.sent]
    /\ net_last' = IF bc_socketOpen /\ Transmitted(r.sent) # <<>>
                   THEN Transmitted(r.sent)[Len(Transmitted(r.sent))]
                   ELSE net_last

\* BroadcastLoop: the alert interval has elapsed or not; BroadcastAlerts()
BroadcastLoop_Alerts(due) ==
    /\ bc_pc = "alerts"
    /\ (due /\ bc_running) => SharedLockable(al_mutex)
    /\ IF ~due
       THEN bc_pc' = "labels" /\ UNCHANGED <<m_sequenceNumber, bc_lastOp, netVars>>
       ELSE IF ~bc_running
       THEN bc_pc' = "exited" /\ UNCHANGED <<m_sequenceNumber, bc_lastOp, netVars>>
       ELSE /\ bc_pc' = "labels"
            /\ LET alerts == AlertRepository_GetUnacknowledged(m_alerts)
               IN  Broadcast("BroadcastAlerts", Len(alerts), Cardinality(DOMAIN m_alerts),
                             BroadcastPackets("AlertMessage", ALERTS_PER_PACKET,
                                              Len(alerts), m_sequenceNumber))
    /\ UNCHANGED <<bc_running, bc_socketOpen, bc_stop_pc, bc_responseID, bc_tick>>
    /\ UNCHANGED notBroadcaster

\* BroadcastLoop: the label interval has elapsed or not; BroadcastStackLabels()
BroadcastLoop_Labels(due) ==
    /\ bc_pc = "labels"
    /\ (due /\ bc_running) => SharedLockable(st_mutex)
    /\ IF ~due
       THEN bc_pc' = "sleep" /\ UNCHANGED <<m_sequenceNumber, bc_lastOp, netVars>>
       ELSE IF ~bc_running
       THEN bc_pc' = "exited" /\ UNCHANGED <<m_sequenceNumber, bc_lastOp, netVars>>
       ELSE /\ bc_pc' = "sleep"
            /\ LET stacks == StackRepository_GetAll(m_stacks)
               IN  Broadcast("BroadcastStackLabels", Cardinality(stacks),
                             Cardinality(DOMAIN m_stacks),
                             BroadcastPackets("StackLabel", STACKS_PER_PACKET,
                                              Cardinality(stacks), m_sequenceNumber))
    /\ UNCHANGED <<bc_running, bc_socketOpen, bc_stop_pc, bc_responseID, bc_tick>>
    /\ UNCHANGED notBroadcaster

\* BroadcastLoop: the sleep loop at the end of an iteration
BroadcastLoop_Sleep ==
    /\ bc_pc = "sleep"
    /\ bc_pc' = "check"
    /\ bc_tick' = bc_tick + 1
    /\ UNCHANGED <<bc_running, bc_socketOpen, bc_stop_pc, m_sequenceNumber, bc_responseID,
                   bc_lastOp>>
    /\ UNCHANGED <<netVars, notBroadcaster>>

(***************************************************************************)
(* WebhookListener.  The server thread sits in httplib's listen, which     *)
(* returns once Stop has called m_server->stop().                          *)
(***************************************************************************)
\* Start(), what it does to the webhook listener
Webhook_StartCall ==
    /\ wh_stop_pc = "idle"
    /\ IF wh_running
       THEN UNCHANGED webhookVars
       ELSE /\ wh_running' = TRUE
            /\ wh_pc' = "listen"
            /\ UNCHANGED wh_stop_pc

\* Stop(), what it does to the webhook listener up to m_serverThread.join()
Webhook_StopCall ==
    /\ wh_stop_pc = "idle"
    /\ IF ~wh_running
       THEN UNCHANGED webhookVars
       ELSE /\ wh_running' = FALSE
            /\ wh_stop_pc' = "join"
            /\ UNCHANGED wh_pc

\* the server thread: m_server->listen returns
Webhook_ListenReturn ==
    /\ wh_pc = "listen"
    /\ ~wh_running
    /\ wh_pc' = "exited"
    /\ UNCHANGED <<wh_running, wh_stop_pc>>
    /\ UNCHANGED notWebhook

\* Stop(), m_serverThread.join() returns and so does Stop
Webhook_Join ==
    /\ wh_stop_pc = "join"
    /\ wh_pc = "exited"
    /\ wh_pc' = "none"
    /\ wh_stop_pc' = "idle"
    /\ UNCHANGED wh_running
    /\ UNCHANGED notWebhook

\* HandleAlertWebhook and HandleBoardWebhook with an offline event: the
\* server calls AlertService::HandleBoardAlert
Webhook_Request(boardAddress, alertMessages, random) ==
    /\ wh_pc = "listen"
    /\ HandleBoardAlert(boardAddress, alertMessages, random)

(***************************************************************************)
(* The WebhookListener's routes.  A request body is NotJson, JSON that is  *)
(* not an object (JsonNoData) or a JSON object, a function from its keys   *)
(* to values <<type, value>>.                                              *)
(***************************************************************************)
JsonString(v) == <<"string", v>>
JsonNumber(v) == <<"number", v>>
JsonArray(v) == <<"array", v>>

JsonObject(fields) == [json |-> TRUE, has_data |-> FALSE, fields |-> fields]

\* nlohmann::json::value(key, default): the default when the key is absent,
\* and a type_error when the JSON is no object or the value has another
\* type (None)
JsonValue(body, key, type, default) ==
    IF "fields" \notin DOMAIN body THEN None
    ELSE IF key \notin DOMAIN body.fields THEN Some(default)
    ELSE IF body.fields[key][1] # type THEN None
    ELSE Some(body.fields[key][2])

\* one of the reads of a handler throws
AnyThrows(reads) == \E i \in 1..Len(reads) : ~reads[i].has_value

\* what a handler decides: the HTTP status of its answer when no alert
\* service is called, or the HandleBoardAlert call it makes
WebhookAnswer(status) == [status |-> status, call |-> None]

WebhookBoardAlert(location, messages) ==
    [status |-> 0, call |-> Some([location |-> location, messages |-> messages])]

HandleAlertWebhook(body) ==
    IF ~body.json THEN WebhookAnswer(400)
    ELSE LET alertType == JsonValue(body, "alertType", "string", "board")
             boardAddress == JsonValue(body, "boardAddress", "string", <<>>)
             chassisName == JsonValue(body, "chassisName", "string", "")
             chassisNumber == JsonValue(body, "chassisNumber", "number", 0)
             boardName == JsonValue(body, "boardName", "string", "")
             boardNumber == JsonValue(body, "boardNumber", "number", 0)
             boardStatus == JsonValue(body, "boardStatus", "number", 1)
             messages == JsonValue(body, "messages", "array", <<>>)
         IN  IF ~alertType.has_value THEN WebhookAnswer(400)
             ELSE IF alertType.value # "board" THEN WebhookAnswer(400)
             ELSE IF AnyThrows(<<boardAddress, chassisName, chassisNumber, boardName,
                                 boardNumber, boardStatus, messages>>)
             THEN WebhookAnswer(400)
             ELSE WebhookBoardAlert(LocationInfo(chassisNumber.value, boardNumber.value,
                                                 boardAddress.value),
                                    messages.value)

HandleStatusWebhook(body) ==
    IF ~body.json THEN WebhookAnswer(400)
    ELSE IF AnyThrows(<<JsonValue(body, "eventType", "string", ""),
                        JsonValue(body, "stackUUID", "string", ""),
                        JsonValue(body, "newStatus", "number", 0),
                        JsonValue(body, "timestamp", "number", 0)>>)
    THEN WebhookAnswer(400)
    ELSE WebhookAnswer(200)

HandleBoardWebhook(body) ==
    IF ~body.json THEN WebhookAnswer(400)
    ELSE LET boardAddress == JsonValue(body, "boardAddress", "string", <<>>)
             chassisNumber == JsonValue(body, "chassisNumber", "number", 0)
             slotNumber == JsonValue(body, "slotNumber", "number", 0)
             eventType == JsonValue(body, "eventType", "string", "")
             timestamp == JsonValue(body, "timestamp", "number", 0)
         IN  IF AnyThrows(<<boardAddress, chassisNumber, slotNumber, eventType, timestamp>>)
             THEN WebhookAnswer(400)
             ELSE IF eventType.value = "offline"
             THEN WebhookBoardAlert(LocationInfo(chassisNumber.value, slotNumber.value,
                                                 boardAddress.value),
                                    <<"board offline">>)
             ELSE WebhookAnswer(200)

\* SetupRoutes: the handler of a POST to path
RouteOf(path, body) ==
    IF path = "/webhook/alert" THEN HandleAlertWebhook(body)
    ELSE IF path = "/webhook/status" THEN HandleStatusWebhook(body)
    ELSE HandleBoardWebhook(body)

NoWebhookCall == [n |-> 0, path |-> "", body |-> NotJson, status |-> 0]

\* the server handles a POST to one of its three routes; HandleBoardAlert
\* returns Success once the alert is saved, and the answer is then 200
Webhook_Post(path, body, random) ==
    /\ wh_last.n < MaxWebhookRequests
    /\ LET h == RouteOf(path, body)
       IN  IF h.call.has_value
           THEN /\ HandleBoardAlert_Call(h.call.value.location, h.call.value.messages,
                                         random)
                /\ wh_last' = [n |-> wh_last.n + 1, path |-> path, body |-> body,
                               status |-> 200]
           ELSE /\ wh_last' = [n |-> wh_last.n + 1, path |-> path, body |-> body,
                               status |-> h.status]
                /\ UNCHANGED alertVars
    /\ UNCHANGED <<chassisVars, saveVars, readerVars, stackVars, collectorVars, listenerVars,
                   broadcasterVars, netVars, webhookVars, mainVars, lockVars, ctl_last,
                   ack_last, ch_last>>

(***************************************************************************)
(* ApplicationBootstrap: StartBackgroundServices, the wait for a signal    *)
(* and StopBackgroundServices, on the main thread.                         *)
(***************************************************************************)
storeVars == <<chassisVars, saveVars, readerVars, stackVars, alertVars, netVars, lockVars,
              callVars>>

Main_StartCollector ==
    /\ main_pc = "init"
    /\ Collector_StartCall
    /\ main_pc' = "start_broadcaster"
    /\ UNCHANGED <<storeVars, broadcasterVars, listenerVars, webhookVars>>

Main_StartBroadcaster(ok) ==
    /\ main_pc = "start_broadcaster"
    /\ Broadcaster_StartCall(ok)
    /\ main_pc' = "start_listener"
    /\ UNCHANGED <<storeVars, collectorVars, listenerVars, webhookVars>>

Main_StartListener(ok) ==
    /\ main_pc = "start_listener"
    /\ Listener_StartCall(ok)
    /\ main_pc' = "start_webhook"
    /\ UNCHANGED <<storeVars, collectorVars, broadcasterVars, webhookVars>>

Main_StartWebhook ==
    /\ main_pc = "start_webhook"
    /\ Webhook_StartCall
    /\ main_pc' = "running"
    /\ UNCHANGED <<storeVars, collectorVars, broadcasterVars, listenerVars>>

\* SignalHandler clears g_running; the main loop ends and Shutdown() calls
\* StopBackgroundServices()
Main_Signal ==
    /\ main_pc = "running"
    /\ main_pc' = "stop_webhook"
    /\ UNCHANGED <<storeVars, collectorVars, broadcasterVars, listenerVars, webhookVars>>

Main_StopWebhook ==
    /\ main_pc = "stop_webhook"
    /\ Webhook_StopCall
    /\ main_pc' = "in_stop_webhook"
    /\ UNCHANGED <<storeVars, collectorVars, broadcasterVars, listenerVars>>

Main_StopListener ==
    /\ main_pc = "stop_listener"
    /\ Listener_StopCall
    /\ main_pc' = "in_stop_listener"
    /\ UNCHANGED <<storeVars, collectorVars, broadcasterVars, webhookVars>>

Main_StopBroadcaster ==
    /\ main_pc = "stop_broadcaster"
    /\ Broadcaster_StopCall
    /\ main_pc' = "in_stop_broadcaster"
    /\ UNCHANGED <<storeVars, collectorVars, listenerVars, webhookVars>>

Main_StopCollector ==
    /\ main_pc = "stop_collector"
    /\ Collector_StopCall
    /\ main_pc' = "in_stop_collector"
    /\ UNCHANGED <<storeVars, broadcasterVars, listenerVars, webhookVars>>

\* a Stop call returns to StopBackgroundServices
Main_StopReturn ==
    /\ \/ main_pc = "in_stop_webhook" /\ wh_stop_pc = "idle" /\ main_pc' = "stop_listener"
       \/ main_pc = "in_stop_listener" /\ lst_stop_pc = "idle" /\ main_pc' = "stop_broadcaster"
       \/ main_pc = "in_stop_broadcaster" /\ bc_stop_pc = "idle" /\ main_pc' = "stop_collector"
       \/ main_pc = "in_stop_collector" /\ col_stop_pc = "idle" /\ main_pc' = "stopped"
    /\ UNCHANGED <<storeVars, collectorVars, broadcasterVars, listenerVars, webhookVars>>

(***************************************************************************)
(* What the backend may answer.                                            *)
(***************************************************************************)
TaskInfo(id, st) == TaskStatusInfo(id, st, "svc", "svc-uuid", "stack", "stack-uuid")

TaskRamp(n) == [i \in 1..n |-> TaskInfo(<<"task", i>>, "running")]

ForeignAddress == <<10, 0, 0, 1>>

\* reports of the board interface: nothing; compute, switch and power boards
\* with tasks; one board twice and an address outside the topology; every
\* status value; every compute board of slot 1 normal
BoardReports ==
    { <<>>,
      <<BoardInfoData(BoardAddress(1, 1), 0, TaskRamp(MAX_TASKS_PER_BOARD + 1)),
        BoardInfoData(BoardAddress(1, 2), 2, <<>>),
        BoardInfoData(BoardAddress(1, 6), 0, <<TaskInfo("t1", "running")>>),
        BoardInfoData(BoardAddress(NumChassis, 13), 0, TaskRamp(MAX_TASKS_PER_BOARD + 1))>>,
      <<BoardInfoData(BoardAddress(1, 1), 1, <<TaskInfo("t2", "failed"), TaskInfo("t1", "running")>>),
        BoardInfoData(BoardAddress(1, 1), 0, <<>>),
        BoardInfoData(ForeignAddress, 0, <<TaskInfo("t1", "running")>>)>>,
      <<BoardInfoData(BoardAddress(1, 1), 2, TaskRamp(MAX_TASKS_PER_BOARD)),
        BoardInfoData(BoardAddress(NumChassis, 2), 0, <<TaskInfo("t1", "running")>>),
        BoardInfoData(BoardAddress(1, 7), 1, <<>>),
        BoardInfoData(BoardAddress(NumChassis, 14), -1, <<>>)>>,
      ReportAllNormal }

ApiFailures == {NoResponse, HttpResponse(500, NotJson), HttpResponse(200, NotJson),
                HttpResponse(200, JsonNoData)}

BoardExchanges == ApiFailures \cup {HttpResponse(200, JsonData(d)) : d \in BoardReports}

DeployReplies ==
    { JsonDeploy(<<StackResult("stack-1", <<"stack", 1>>, "ok")>>,
                 <<StackResult("stack-2", <<"stack", 2>>, "no resources")>>),
      JsonNoData }

DeployExchanges ==
    {NoResponse, HttpResponse(500, NotJson), HttpResponse(200, NotJson)}
        \cup {HttpResponse(200, body) : body \in DeployReplies}

DeployExchangesFew ==
    {NoResponse, HttpResponse(200, JsonDeploy(<<StackResult("stack-1", <<"stack", 1>>, "ok")>>,
                                              <<>>))}

BoardExchangesFew == {NoResponse, HttpResponse(200, JsonData(<<>>))}

ServiceInfo(uuid, status, tasks) ==
    [serviceName |-> "svc", serviceUUID |-> uuid, serviceStatus |-> status,
     serviceType |-> 0, taskInfos |-> tasks]

StackTaskInfo(id) ==
    [taskID |-> id, taskStatus |-> "running", boardAddress |-> BoardAddress(1, 1),
     resources |-> 50, chassisNumber |-> 1, boardNumber |-> 1]

StackInfoData(uuid, running, labels, services) ==
    [stackName |-> "stack", stackUUID |-> uuid,
     stackDeployStatus |-> StackDeployStatus_Deployed,
     stackRunningStatus |-> running, stackLabelInfos |-> labels,
     serviceInfos |-> services]

Stack1_Normal_NoService ==
    StackInfoData("stack-1", StackRunningStatus_Normal, <<>>, <<>>)

Stack1_Normal_ServiceAbnormal ==
    StackInfoData("stack-1", StackRunningStatus_Normal,
                  <<StackLabelInfo("label", "label-1")>>,
                  <<ServiceInfo("svc-a", 2, <<>>),
                    ServiceInfo("svc-b", ServiceStatus_Abnormal, <<>>)>>)

Stack1_Abnormal_ServiceRunning ==
    StackInfoData("stack-1", StackRunningStatus_Abnormal, <<>>,
                  <<ServiceInfo("svc-a", 2, <<StackTaskInfo("t1")>>)>>)

Stack2_Abnormal_ServiceAbnormal ==
    StackInfoData("stack-2", StackRunningStatus_Abnormal, <<>>,
                  <<ServiceInfo("svc-b", ServiceStatus_Abnormal, <<>>)>>)

Stack2_Normal_NoService ==
    StackInfoData("stack-2", StackRunningStatus_Normal, <<>>, <<>>)

\* reports of the stack interface: nothing; one stack; two stacks; one stack
\* twice in a report
StackReports ==
    { <<>>,
      <<Stack1_Normal_NoService>>,
      <<Stack1_Normal_ServiceAbnormal, Stack2_Abnormal_ServiceAbnormal>>,
      <<Stack1_Abnormal_ServiceRunning, Stack2_Normal_NoService, Stack1_Normal_NoService>>,
      <<Stack2_Normal_NoService>> }

StackExchanges == {NoResponse} \cup {HttpResponse(200, JsonData(d)) : d \in StackReports}

StackExchangesFew ==
    ApiFailures \cup {HttpResponse(200, JsonData(<<Stack1_Normal_NoService>>))}

\* the stacks and UUIDs other callers of the stack repository pass
SavedStacks == {ConvertToStack(Stack1_Normal_ServiceAbnormal),
                ConvertToStack(Stack2_Normal_NoService)}

StackUUIDs == {"stack-1", "stack-2"}

\* the services and the stack and alert repositories after construction, the
\* static responseID of BroadcastChassisStates holding responseID
Constructed(responseID) ==
    /\ sv_pc = "idle" /\ sv_allChassis = CreateFullTopology /\ sv_idx = 0
    /\ sv_oldActive = "A" /\ nCommits = 0
    /\ committed = {CreateFullTopology}
    /\ rd_pc = "idle" /\ rd_active = "A" /\ rd_idx = 0 /\ rd_result = <<>>
    /\ rd_atLoad = CreateFullTopology /\ rd_swaps = 0 /\ rd_late = FALSE /\ nReads = 0
    /\ m_stacks = EmptyMap
    /\ st_lastOp = [op |-> "none", stacks |-> <<>>]
    /\ col_running = FALSE /\ col_pc = "none" /\ col_stop_pc = "idle" /\ col_tick = 0
    /\ col_nThreads = 0
    /\ lastBoardRes = NoResponse /\ lastStackRes = NoResponse
    /\ m_alerts = EmptyMap /\ now = 0 /\ al_flip = FALSE /\ al_nCreated = 0
    /\ al_lastOp = [op |-> "none", arg |-> 0, result |-> 0]
    /\ lst_running = FALSE /\ lst_socketOpen = FALSE /\ lst_pc = "none"
    /\ lst_stop_pc = "idle" /\ lst_inbox = <<>> /\ lst_buffer = NoDatagram
    /\ lst_response = NoCommandResponse /\ lst_nSent = 0
    /\ bc_running = FALSE /\ bc_socketOpen = FALSE /\ bc_pc = "none"
    /\ bc_stop_pc = "idle" /\ m_sequenceNumber = Uint32_Zero /\ bc_responseID = responseID
    /\ bc_tick = 0 /\ bc_lastOp = [op |-> "none", read |-> 0, stored |-> 0, sent |-> <<>>]
    /\ net_last = NoPacket
    /\ wh_running = FALSE /\ wh_pc = "none" /\ wh_stop_pc = "idle"
    /\ main_pc = "init"
    /\ al_mutex = "free" /\ am_pc = "idle" /\ am_alertUUIDs = <<>> /\ am_idx = 1
    /\ am_count = 0 /\ ga_pc = "idle" /\ ga_result = <<>>
    /\ st_mutex = "free" /\ ss_pc = "idle" /\ ss_stacks = <<>> /\ ss_idx = 1
    /\ sg_pc = "idle" /\ sg_result = {}
    /\ ctl_last = NoControlCall /\ wh_last = NoWebhookCall /\ ack_last = NoAckCall
    /\ ch_last = NoStoreCall

\* the state after main's Initialize: the repositories constructed and the
\* default topology loaded
InitAt(responseID) ==
    /\ Initialize(CreateFullTopology)
    /\ Constructed(responseID)

Init == InitAt(Uint32_Zero)

(***************************************************************************)
(* SpecBuffer: one writer thread calling SaveAll, one reader thread        *)
(* calling GetAll, each statement a step.                                  *)
(***************************************************************************)
NextBuffer ==
    \/ \E allChassis \in BufferSnapshots : SaveAll_Call(allChassis)
    \/ SaveAll_Write
    \/ SaveAll_Exchange
    \/ SaveAll_Rotate
    \/ GetAll_Load
    \/ GetAll_Copy
    \/ GetAll_Return

SpecBuffer == Init /\ [][NextBuffer]_vars

(***************************************************************************)
(* SpecBoards: the collector against a backend with many board reports.    *)
(* SpecStacks: the collector against a backend with many stack reports,    *)
(* and callers of the stack repository's other writer operations.          *)
(***************************************************************************)
CollectorControl ==
    \/ Collector_Start
    \/ Collector_Stop
    \/ Collector_Join
    \/ CollectLoop_Check
    \/ CollectLoop_Wait

NextBoards ==
    \/ CollectorControl
    \/ \E res \in BoardExchanges : CollectBoardInfo(res)
    \/ \E res \in StackExchangesFew : CollectStackInfo(res)

SpecBoards == Init /\ [][NextBoards]_vars

NextStacks ==
    \/ CollectorControl
    \/ \E res \in BoardExchangesFew : CollectBoardInfo(res)
    \/ \E res \in StackExchanges : CollectStackInfo(res)
    \/ \E stack \in SavedStacks : StackRepo_Save(stack)
    \/ \E stackUUID \in StackUUIDs : StackRepo_Remove(stackUUID)
    \/ StackRepo_Clear

SpecStacks == Init /\ [][NextStacks]_vars

(***************************************************************************)
(* SpecAlerts: the webhook saving board alerts, callers acknowledging and  *)
(* expiring them, and the clock.                                           *)
(***************************************************************************)
\* the random part of an alert UUID, drawn from 0..0xFFFFFF by the program
RandomValues == {0, 1}

AlertUUIDs == {GenerateAlertUUID("alert-board", t, r) : t \in 0..MaxTime, r \in RandomValues}

NextAlerts ==
    \/ Clock_Tick
    \/ \E random \in RandomValues : HandleBoardAlert(BoardAddress(1, 1), <<"overheat">>, random)
    \/ \E alertUUID \in AlertUUIDs : AlertRepo_Acknowledge(alertUUID)
    \/ \E maxAgeSeconds \in 0..MaxAge, tickAt \in 0..Cardinality(DOMAIN m_alerts) :
          AlertRepo_RemoveExpired(maxAgeSeconds, tickAt)

SpecAlerts == Init /\ [][NextAlerts]_vars

(***************************************************************************)
(* SpecListener: the command listener, its front ends and the webhook.     *)
(* The listener thread and a Stop call in progress take their next step    *)
(* when they can; nothing obliges a front end to send a datagram or        *)
(* recvfrom to fail.                                                       *)
(***************************************************************************)
Datagrams ==
    { Datagram(TRUE, "DeployStack", TRUE, 1, <<"label", 1>>),
      Datagram(TRUE, "UndeployStack", FALSE, 2, <<"label", 1>>),
      Datagram(TRUE, "AcknowledgeAlert", TRUE, 3, GenerateAlertUUID("alert-board", 0, 0)),
      Datagram(TRUE, "ChassisState", TRUE, 4, <<>>),
      Datagram(FALSE, "", FALSE, 0, <<>>) }

ListenerThread ==
    \/ ListenLoop_Check
    \/ ListenLoop_Recv
    \/ \E res \in DeployExchangesFew : ListenLoop_Process(res)

ListenerStopping ==
    \/ Listener_Join
    \/ Listener_Close

NextListener ==
    \/ \E ok \in BOOLEAN : Listener_Start(ok)
    \/ Listener_Stop
    \/ ListenerStopping
    \/ ListenerThread
    \/ ListenLoop_RecvError
    \/ \E d \in Datagrams : Datagram_Arrive(d)
    \/ \E random \in RandomValues : HandleBoardAlert(BoardAddress(1, 1), <<"overheat">>, random)

SpecListener ==
    /\ Init
    /\ [][NextListener]_vars
    /\ WF_vars(ListenerThread)
    /\ WF_vars(ListenerStopping)

(***************************************************************************)
(* SpecAlertLock: a thread calling AcknowledgeMultiple, a thread calling    *)
(* GetUnacknowledged, and the webhook and a caller of Acknowledge as the   *)
(* other writers.                                                          *)
(***************************************************************************)
AbsentAlertUUID == GenerateAlertUUID("alert-component", 0, 0)

AlertBatches ==
    { <<GenerateAlertUUID("alert-board", 0, 0), GenerateAlertUUID("alert-board", 0, 1)>>,
      <<GenerateAlertUUID("alert-board", 0, 1), AbsentAlertUUID,
        GenerateAlertUUID("alert-board", 0, 0)>> }

NextAlertLock ==
    \/ \E random \in RandomValues : HandleBoardAlert(BoardAddress(1, 1), <<"overheat">>, random)
    \/ AlertRepo_Acknowledge(GenerateAlertUUID("alert-board", 0, 0))
    \/ \E alertUUIDs \in AlertBatches : AcknowledgeMultiple_Lock(alertUUIDs)
    \/ AcknowledgeMultiple_Step
    \/ AcknowledgeMultiple_Return
    \/ GetUnacknowledged_Lock
    \/ GetUnacknowledged_Return

SpecAlertLock == Init /\ [][NextAlertLock]_vars

(***************************************************************************)
(* SpecStackLock: a thread calling SaveAll (the collector), a thread        *)
(* calling GetAll, and callers of Save and Remove as the other writers.    *)
(***************************************************************************)
StackBatches ==
    { <<ConvertToStack(Stack1_Normal_NoService), ConvertToStack(Stack2_Normal_NoService)>>,
      <<ConvertToStack(Stack2_Abnormal_ServiceAbnormal),
        ConvertToStack(Stack1_Abnormal_ServiceRunning),
        ConvertToStack(Stack2_Normal_NoService)>> }

NextStackLock ==
    \/ \E stacks \in StackBatches : StackSaveAll_Lock(stacks)
    \/ StackSaveAll_Step
    \/ StackSaveAll_Return
    \/ StackGetAll_Lock
    \/ StackGetAll_Return
    \/ \E stack \in SavedStacks : StackRepo_Save(stack)
    \/ \E stackUUID \in StackUUIDs : StackRepo_Remove(stackUUID)

SpecStackLock == Init /\ [][NextStackLock]_vars

(***************************************************************************)
(* SpecRoundTrip: the broadcaster, the command listener with a front end   *)
(* acknowledging an alert, and the webhook creating board alerts.          *)
(* SpecBroadcast: the broadcaster, the webhook, a caller of Acknowledge    *)
(* and writers of the stack repository.                                    *)
(***************************************************************************)
BroadcasterThread ==
    \/ (bc_running => bc_tick < MaxBroadcasts) /\ BroadcastLoop_Check
    \/ \E due \in BOOLEAN : BroadcastLoop_Chassis(due)
    \/ \E due \in BOOLEAN : BroadcastLoop_Alerts(due)
    \/ \E due \in BOOLEAN : BroadcastLoop_Labels(due)
    \/ BroadcastLoop_Sleep

RoundTripDatagrams ==
    { Datagram(TRUE, "AcknowledgeAlert", TRUE, 3, GenerateAlertUUID("alert-board", 0, 0)) }

NextRoundTrip ==
    \/ Broadcaster_Start(TRUE)
    \/ BroadcasterThread
    \/ Listener_Start(TRUE)
    \/ ListenerThread
    \/ \E d \in RoundTripDatagrams : Datagram_Arrive(d)
    \/ HandleBoardAlert(BoardAddress(1, 1), <<"overheat">>, 0)

SpecRoundTrip == Init /\ [][NextRoundTrip]_vars

NextBroadcast ==
    \/ Broadcaster_Start(TRUE)
    \/ BroadcasterThread
    \/ HandleBoardAlert(BoardAddress(1, 1), <<"overheat">>, 0)
    \/ AlertRepo_Acknowledge(GenerateAlertUUID("alert-board", 0, 0))
    \/ StackRepo_Save(ConvertToStack(Stack1_Normal_ServiceAbnormal))
    \/ StackRepo_Remove("stack-1")

SpecBroadcast == Init /\ [][NextBroadcast]_vars

(***************************************************************************)
(* SpecDaemon: the whole daemon.  The main thread starts the four          *)
(* background services, waits for a signal and stops them; every thread    *)
(* takes its next step when it can.  Nothing obliges a signal to come, a   *)
(* front end to send a datagram, the backend to post to the webhook or     *)
(* recvfrom to fail.  Each thread and each peer does at most MaxDaemonWork  *)
(* units of work: ticks, datagrams, webhook requests.                      *)
(***************************************************************************)
DaemonBoardExchanges == {HttpResponse(200, JsonData(<<BoardInfoData(BoardAddress(1, 1), 1, <<>>)>>))}

DaemonStackExchanges == {HttpResponse(200, JsonData(<<Stack2_Normal_NoService>>))}

DaemonDatagrams ==
    {Datagram(TRUE, "AcknowledgeAlert", TRUE, 3, GenerateAlertUUID("alert-board", 0, 0))}

MainThread ==
    \/ Main_StartCollector
    \/ \E ok \in BOOLEAN : Main_StartBroadcaster(ok)
    \/ \E ok \in BOOLEAN : Main_StartListener(ok)
    \/ Main_StartWebhook
    \/ Main_StopWebhook
    \/ Webhook_Join
    \/ Main_StopListener
    \/ Listener_Join
    \/ Listener_Close
    \/ Main_StopBroadcaster
    \/ Broadcaster_Join
    \/ Broadcaster_Close
    \/ Main_StopCollector
    \/ Collector_Join
    \/ Main_StopReturn

DaemonCollectorThread ==
    \/ (col_running => col_tick < MaxDaemonWork) /\ CollectLoop_Check
    \/ \E res \in DaemonBoardExchanges : CollectBoardInfo(res)
    \/ \E res \in DaemonStackExchanges : CollectStackInfo(res)
    \/ CollectLoop_Wait

DaemonBroadcasterThread ==
    \/ (bc_running => bc_tick < MaxDaemonWork) /\ BroadcastLoop_Check
    \/ \E due \in BOOLEAN : BroadcastLoop_Chassis(due)
    \/ \E due \in BOOLEAN : BroadcastLoop_Alerts(due)
    \/ \E due \in BOOLEAN : BroadcastLoop_Labels(due)
    \/ BroadcastLoop_Sleep

WebhookThread == Webhook_ListenReturn

NextDaemon ==
    \/ MainThread
    \/ Main_Signal
    \/ DaemonCollectorThread
    \/ DaemonBroadcasterThread
    \/ ListenerThread
    \/ ListenLoop_RecvError
    \/ WebhookThread
    \/ lst_nSent < MaxDaemonWork /\ \E d \in DaemonDatagrams : Datagram_Arrive(d)
    \/ al_nCreated < MaxDaemonWork /\ Webhook_Request(BoardAddress(1, 1), <<"overheat">>, 0)

SpecDaemon ==
    /\ Init
    /\ [][NextDaemon]_vars
    /\ WF_vars(MainThread)
    /\ WF_vars(DaemonCollectorThread)
    /\ WF_vars(DaemonBroadcasterThread)
    /\ WF_vars(ListenerThread)
    /\ WF_vars(WebhookThread)

(***************************************************************************)
(* The running daemon: the main thread has started the four services and   *)
(* no signal arrives.                                                      *)
(***************************************************************************)
MainStarting ==
    \/ Main_StartCollector
    \/ Main_StartBroadcaster(TRUE)
    \/ Main_StartListener(TRUE)
    \/ Main_StartWebhook

\* every broadcast interval has elapsed when the loop tests it
RunningBroadcasterThread ==
    \/ (bc_running => bc_tick < MaxDaemonWork) /\ BroadcastLoop_Check
    \/ BroadcastLoop_Chassis(TRUE)
    \/ BroadcastLoop_Alerts(TRUE)
    \/ BroadcastLoop_Labels(TRUE)
    \/ BroadcastLoop_Sleep

NextRunning ==
    \/ MainStarting
    \/ DaemonCollectorThread
    \/ RunningBroadcasterThread
    \/ ListenerThread
    \/ lst_nSent < MaxDaemonWork /\ \E d \in DaemonDatagrams : Datagram_Arrive(d)
    \/ al_nCreated < MaxDaemonWork /\ Webhook_Request(BoardAddress(1, 1), <<"overheat">>, 0)

SpecRunning == Init /\ [][NextRunning]_vars

(***************************************************************************)
(* SpecResponseID: the broadcaster alone, emitting board-status packets.   *)
(* The static counter starts at 0; the behaviours that start at the other  *)
(* values are the continuations of a run that has emitted that many        *)
(* packets.                                                                *)
(***************************************************************************)
EmittedBefore ==
    {Uint32_Zero, <<0, UINT16_MODULUS - 2>>, <<UINT16_MODULUS - 1, UINT16_MODULUS - 3>>}

StatusBroadcasterThread ==
    \/ (bc_running => bc_tick < MaxEmissions) /\ BroadcastLoop_Check
    \/ \E due \in BOOLEAN : BroadcastLoop_Chassis(due)
    \/ BroadcastLoop_Alerts(FALSE)
    \/ BroadcastLoop_Labels(FALSE)
    \/ BroadcastLoop_Sleep

NextResponseIDs ==
    \/ Broadcaster_Start(TRUE)
    \/ StatusBroadcasterThread

SpecResponseID == (\E responseID \in EmittedBefore : InitAt(responseID)) /\ [][NextResponseIDs]_vars

(***************************************************************************)
(* SpecStatus: the collector committing board reports that hold every      *)
(* board status and task status, and the broadcaster emitting board-status *)
(* packets.                                                                *)
(***************************************************************************)
StatusTasks ==
    <<TaskInfo("t1", "running"), TaskInfo("t2", "normal"), TaskInfo("t3", "failed"),
      TaskInfo("t4", "unknown"), TaskInfo("t5", "")>>

StatusBoardExchanges ==
    { HttpResponse(200, JsonData(<<>>)),
      HttpResponse(200, JsonData(
          <<BoardInfoData(BoardAddress(1, 1), 0, StatusTasks),
            BoardInfoData(BoardAddress(1, 2), 1, <<TaskInfo("t6", "Running")>>),
            BoardInfoData(BoardAddress(1, 12), 0, <<>>),
            BoardInfoData(BoardAddress(1, 13), 0, StatusTasks),
            BoardInfoData(BoardAddress(NumChassis, 3), 0,
                          TaskRamp(MAX_TASKS_PER_BOARD + 1))>>)) }

StatusCollectorThread ==
    \/ (col_running => col_tick < MaxDaemonWork) /\ CollectLoop_Check
    \/ \E res \in StatusBoardExchanges : CollectBoardInfo(res)
    \/ CollectStackInfo(NoResponse)
    \/ CollectLoop_Wait

NextStatus ==
    \/ Collector_Start
    \/ StatusCollectorThread
    \/ Broadcaster_Start(TRUE)
    \/ StatusBroadcasterThread

SpecStatus == Init /\ [][NextStatus]_vars

(***************************************************************************)
(* SpecControl: front ends calling the stack control service, against a    *)
(* backend that answers, fails or answers with something else than JSON,   *)
(* while the stack repository is written.                                  *)
(***************************************************************************)
ControlCommands ==
    { DeployCommandDTO(<<>>),
      DeployCommandDTO(<< <<"label", 1>> >>),
      DeployCommandDTO(<< <<"label", 1>>, <<"label", 2>> >>) }

NextControl ==
    \/ \E command \in ControlCommands, res \in DeployExchanges :
          Control_DeployByLabels(command, res)
    \/ \E command \in ControlCommands, res \in DeployExchanges :
          Control_UndeployByLabels(command, res)
    \/ StackRepo_Save(ConvertToStack(Stack1_Normal_ServiceAbnormal))
    \/ StackRepo_Remove("stack-1")

SpecControl == Init /\ [][NextControl]_vars

(***************************************************************************)
(* SpecWebhook: alarm sources posting to the three routes of the webhook   *)
(* listener, and a front end acknowledging alerts.                         *)
(***************************************************************************)
WebhookPaths == {"/webhook/alert", "/webhook/status", "/webhook/board"}

BoardAlertFields ==
    ("alertType" :> JsonString("board")) @@ ("boardAddress" :> JsonString(BoardAddress(1, 1)))
        @@ ("chassisNumber" :> JsonNumber(1)) @@ ("boardNumber" :> JsonNumber(1))
        @@ ("messages" :> JsonArray(<<"overheat">>))

BoardEventFields(eventType) ==
    ("boardAddress" :> JsonString(BoardAddress(1, 2))) @@ ("chassisNumber" :> JsonNumber(1))
        @@ ("slotNumber" :> JsonNumber(2)) @@ ("eventType" :> JsonString(eventType))

WebhookBodies ==
    { NotJson,
      JsonNoData,
      JsonObject(BoardAlertFields),
      JsonObject("alertType" :> JsonString("component")),
      JsonObject("alertType" :> JsonNumber(1)),
      JsonObject(BoardEventFields("offline")),
      JsonObject(BoardEventFields("online")) }

NextWebhook ==
    \/ \E path \in WebhookPaths, body \in WebhookBodies, random \in RandomValues :
          Webhook_Post(path, body, random)
    \/ \E alertUUID \in AlertUUIDs : AlertRepo_Acknowledge(alertUUID)

SpecWebhook == Init /\ [][NextWebhook]_vars

(***************************************************************************)
(* SpecAcknowledge: front ends acknowledging alerts through the alert      *)
(* service, alerts that are stored and alerts that are not, while webhooks *)
(* post alerts.                                                            *)
(***************************************************************************)
AcknowledgedUUIDs ==
    {GenerateAlertUUID("alert-board", 0, random) : random \in RandomValues}
        \cup {GenerateAlertUUID("alert-board", 1, 0)}

NextAcknowledge ==
    \/ \E random \in RandomValues : HandleBoardAlert(BoardAddress(1, 1), <<"overheat">>, random)
    \/ \E alertUUID \in AcknowledgedUUIDs : AlertService_AcknowledgeAlert(alertUUID)

SpecAcknowledge == Init /\ [][NextAcknowledge]_vars

(***************************************************************************)
(* SpecChassisStore: one thread calling Save and SaveAll on the chassis    *)
(* repository, each call in one piece, the readers reading between calls.  *)
(***************************************************************************)
SavedChassis ==
    {UpdateAllChassis(CreateFullTopology, ReportAllAbnormal)[c] : c \in 1..NumChassis}
        \cup {DefaultChassis, CreateChassis(NumChassis + 1)}

NextChassisStore ==
    \/ \E chassis \in SavedChassis : ChassisRepo_Save(chassis)
    \/ \E allChassis \in BufferSnapshots : ChassisRepo_SaveAll(allChassis)

SpecChassisStore == Init /\ [][NextChassisStore]_vars

(***************************************************************************)
(* SpecCommands: the running command listener and front ends sending it    *)
(* whole commands, truncated commands, packets of other types and          *)
(* datagrams shorter than a header.                                        *)
(***************************************************************************)
NextCommands ==
    \/ Listener_Start(TRUE)
    \/ ListenerThread
    \/ \E d \in Datagrams : Datagram_Arrive(d)
    \/ HandleBoardAlert(BoardAddress(1, 1), <<"overheat">>, 0)

SpecCommands == Init /\ [][NextCommands]_vars

\* C1: the array GetAll returns is one of the published snapshots (the
\* initial one or a committed one), never a mixture of two.
C1_GetAllNeverTorn == rd_pc = "done" => rd_result \in committed

\* C2: a GetAll whose copy ended before the writer wrote any element of the
\* commit after the first exchange that followed the load returns the array
\* that was active at the load.
C2_ReadBeforeNextNextCommit ==
    (rd_pc = "done" /\ ~rd_late) => rd_result = rd_atLoad

\* C2 witness: such a GetAll with an exchange between its load and its end,
\* and the array it returns is no longer the active one.
C2_Witness ==
    /\ rd_pc = "done" /\ ~rd_late /\ rd_swaps = 1
    /\ rd_result = rd_atLoad
    /\ rd_result # GetAll

(***************************************************************************)
(* Properties of the collector and the chassis store, under SpecBoards.    *)
(***************************************************************************)
PhaseA_Step == col_pc = "boardinfo" /\ col_pc' = "stackinfo"
PhaseB_Step == col_pc = "stackinfo" /\ col_pc' = "wait"

\* the task list of a board: the first m_taskCount slots
TaskList(board) == SubSeq(board.m_tasks, 1, board.m_taskCount)

\* C3: a phase A whose get_board_info failed (no response or timeout, a
\* status other than 200, a body that is not JSON or has no data array)
\* leaves both chassis arrays and the active pointer as they were, so GetAll
\* returns after it what it returned before it.
C3_FailedBoardInfoKeepsStore ==
    [][(PhaseA_Step /\ ApiFailed(lastBoardRes'))
          => (UNCHANGED chassisVars /\ GetAll' = GetAll)]_vars

\* C3 witness: a failed phase A in the second tick, after a first tick that
\* committed: the store still holds the first tick's snapshot.
C3_Witness ==
    /\ col_pc = "stackinfo" /\ col_tick = 1
    /\ ApiFailed(lastBoardRes)
    /\ GetAll # CreateFullTopology
    /\ \E c \in 1..NumChassis, s \in 1..BOARDS_PER_CHASSIS :
          GetAll[c].m_boards[s].m_status = "Normal"

\* C7: in every published snapshot a Switch or Power board has task count 0.
C7_NonComputeBoardsHaveNoTasks ==
    \A c \in 1..NumChassis, s \in 1..BOARDS_PER_CHASSIS :
        GetAll[c].m_boards[s].m_boardType \in {"Switch", "Power"}
            => GetAll[c].m_boards[s].m_taskCount = 0

\* C7 witness: a committed report that lists tasks for a switch board and for
\* a power board, both online in the snapshot.
C7_Witness ==
    /\ col_pc = "stackinfo" /\ ~ApiFailed(lastBoardRes)
    /\ \E i, j \in 1..Len(lastBoardRes.body.data) :
          /\ lastBoardRes.body.data[i].boardAddress = BoardAddress(1, 6)
          /\ lastBoardRes.body.data[i].taskInfos # <<>>
          /\ lastBoardRes.body.data[j].boardAddress = BoardAddress(NumChassis, 13)
          /\ lastBoardRes.body.data[j].taskInfos # <<>>
    /\ GetAll[1].m_boards[6].m_status = "Normal"
    /\ GetAll[NumChassis].m_boards[13].m_status = "Normal"

\* C8: right after a successful phase A, a board whose address is reported
\* (by its first entry in the response) is Normal when boardStatus is 0 and
\* Abnormal otherwise, and a Compute board's task list is the first
\* min(n, 8) reported tasks in order; a board not reported is Offline with an
\* empty task list.
C8_PhaseAResult ==
    (col_pc = "stackinfo" /\ ~ApiFailed(lastBoardRes)) =>
        \A c \in 1..NumChassis, s \in 1..BOARDS_PER_CHASSIS :
            LET board == GetAll[c].m_boards[s]
                data == lastBoardRes.body.data
                hits == {i \in 1..Len(data) : data[i].boardAddress = board.m_boardAddress}
            IN  IF hits = {}
                THEN board.m_status = "Offline" /\ TaskList(board) = <<>>
                ELSE LET info == data[CHOOSE i \in hits : \A j \in hits : i <= j]
                         n == Min(Len(info.taskInfos), 8)
                     IN  /\ board.m_status = IF info.boardStatus = 0 THEN "Normal"
                                             ELSE "Abnormal"
                         /\ board.m_boardType = "Computing" =>
                               /\ Len(TaskList(board)) = n
                               /\ \A k \in 1..n :
                                     /\ TaskList(board)[k].taskID = info.taskInfos[k].taskID
                                     /\ TaskList(board)[k].taskStatus = info.taskInfos[k].taskStatus

\* C8 witness: a committed report with nine tasks for one compute board, of
\* which eight are kept, boardStatus 2 for a second board, which is Abnormal,
\* and nothing for a third, which is Offline.
C8_Witness ==
    /\ col_pc = "stackinfo" /\ ~ApiFailed(lastBoardRes)
    /\ \E i, j \in 1..Len(lastBoardRes.body.data) :
          /\ lastBoardRes.body.data[i].boardAddress = BoardAddress(1, 1)
          /\ Len(lastBoardRes.body.data[i].taskInfos) = MAX_TASKS_PER_BOARD + 1
          /\ lastBoardRes.body.data[j].boardAddress = BoardAddress(1, 2)
          /\ lastBoardRes.body.data[j].boardStatus = 2
    /\ GetAll[1].m_boards[1].m_taskCount = MAX_TASKS_PER_BOARD
    /\ GetAll[1].m_boards[2].m_status = "Abnormal"
    /\ GetAll[1].m_boards[3].m_status = "Offline"

\* C9: phase A is always followed by phase B of the same tick; phase A never
\* touches the stack store and phase B never touches the chassis store; a
\* failed get_stack_info leaves the stack store as it was, and a successful
\* one stores every reported stack whatever phase A did.
C9_PhasesIsolated ==
    [][/\ (col_pc = "boardinfo" /\ col_pc' # col_pc) => col_pc' = "stackinfo"
       /\ (col_pc = "stackinfo" /\ col_pc' # col_pc) => col_pc' = "wait"
       /\ PhaseA_Step => m_stacks' = m_stacks
       /\ PhaseB_Step => (UNCHANGED chassisVars /\ GetAll' = GetAll)
       /\ (PhaseB_Step /\ ApiFailed(lastStackRes')) => m_stacks' = m_stacks
       /\ (PhaseB_Step /\ ~ApiFailed(lastStackRes')) =>
             \A i \in 1..Len(lastStackRes'.body.data) :
                 lastStackRes'.body.data[i].stackUUID \in DOMAIN m_stacks']_vars

\* C9 witness: the second tick committed phase A and failed phase B; the
\* chassis store holds phase A's snapshot and the stack store still holds the
\* stack of the first tick.
C9_Witness ==
    /\ col_pc = "wait" /\ col_tick = 2
    /\ ~ApiFailed(lastBoardRes) /\ ApiFailed(lastStackRes)
    /\ GetAll[1].m_boards[1].m_status = "Abnormal"
    /\ m_stacks # EmptyMap

(***************************************************************************)
(* Properties of the stack store, under SpecStacks.                        *)
(***************************************************************************)
\* the last stack of a batch with the given UUID
LastWithUUID(stacks, uuid) ==
    LET hits == {i \in 1..Len(stacks) : stacks[i].m_stackUUID = uuid}
    IN  stacks[CHOOSE i \in hits : \A j \in hits : j <= i]

\* C5: a Save or SaveAll leaves the store with the UUIDs it had and those of
\* the batch; a UUID of the batch maps to the last stack of the batch with
\* that UUID, every other UUID to the stack it mapped to before.
C5_SaveAllMerges ==
    [][st_lastOp'.op \in {"Save", "SaveAll"} =>
          /\ DOMAIN m_stacks' = DOMAIN m_stacks \cup BatchUUIDs(st_lastOp'.stacks)
          /\ \A u \in DOMAIN m_stacks' :
                m_stacks'[u] = IF u \in BatchUUIDs(st_lastOp'.stacks)
                               THEN LastWithUUID(st_lastOp'.stacks, u)
                               ELSE m_stacks[u]]_vars

\* C5 witness: after a SaveAll of a batch the store holds a stack that is
\* not in the batch.
C5_Witness ==
    /\ st_lastOp.op = "SaveAll" /\ st_lastOp.stacks # <<>>
    /\ col_pc = "wait"
    /\ \E u \in DOMAIN m_stacks : u \notin BatchUUIDs(st_lastOp.stacks)

\* C6: right after a phase B commit every stack of the committed batch is
\* Abnormal in the store if one of its services is Abnormal, and Normal if
\* none is.
C6_RunningStatusDerived ==
    (col_pc = "wait" /\ st_lastOp.op = "SaveAll" /\ ~ApiFailed(lastStackRes)) =>
        \A u \in BatchUUIDs(st_lastOp.stacks) :
            LET stack == m_stacks[u]
                anyAbnormal == \E v \in DOMAIN stack.m_services :
                                  stack.m_services[v].m_status = ServiceStatus_Abnormal
            IN  stack.m_runningStatus = IF anyAbnormal THEN StackRunningStatus_Abnormal
                                        ELSE StackRunningStatus_Normal

(***************************************************************************)
(* Properties of the alert store, under SpecAlerts.                        *)
(***************************************************************************)
RemoveExpired_Step == al_flip' # al_flip /\ al_lastOp'.op = "RemoveExpired"

\* C4: RemoveExpired(T) removes only acknowledged alerts whose age is
\* greater than T when the call returns, keeps every unacknowledged alert
\* and every alert whose age was at most T when the call began, returns the
\* number it removed and leaves the alerts it keeps as they were; on a store
\* with no acknowledged alert it returns 0 and changes nothing.
C4_RemoveExpiredExact ==
    [][RemoveExpired_Step =>
          LET T == al_lastOp'.arg
              removed == DOMAIN m_alerts \ DOMAIN m_alerts'
          IN  /\ DOMAIN m_alerts' \subseteq DOMAIN m_alerts
              /\ \A u \in removed :
                    /\ m_alerts[u].m_isAcknowledged
                    /\ now' - m_alerts[u].m_timestamp > T
              /\ \A u \in DOMAIN m_alerts' :
                    /\ m_alerts'[u] = m_alerts[u]
                    /\ ~m_alerts[u].m_isAcknowledged \/ now - m_alerts[u].m_timestamp <= T
              /\ al_lastOp'.result = Cardinality(removed)
              /\ (\A u \in DOMAIN m_alerts : ~m_alerts[u].m_isAcknowledged)
                    => (al_lastOp'.result = 0 /\ m_alerts' = m_alerts)]_vars

\* C4 witness: a RemoveExpired(0) returned 1 and left in the store an
\* unacknowledged alert older than 0 seconds.
C4_Witness ==
    /\ al_lastOp.op = "RemoveExpired" /\ al_lastOp.arg = 0 /\ al_lastOp.result = 1
    /\ \E u \in DOMAIN m_alerts :
          ~m_alerts[u].m_isAcknowledged /\ now - m_alerts[u].m_timestamp > 0

(***************************************************************************)
(* Properties of the command listener, under SpecListener.                 *)
(***************************************************************************)
\* C10: a Stop that has cleared m_running and waits for the listener thread
\* eventually returns.
C10_StopReturns == (lst_stop_pc = "join") ~> (lst_stop_pc = "idle")

\* C11: once shutdown is requested (the main thread enters
\* StopBackgroundServices), eventually the shutdown sequence has completed
\* and no background thread is left: every one of them has ended and has
\* been joined.
AllThreadsJoined ==
    /\ wh_pc = "none"
    /\ lst_pc = "none"
    /\ bc_pc = "none"
    /\ col_pc = "none"

C11_ShutdownCompletes ==
    (main_pc = "stop_webhook") ~> (main_pc = "stopped" /\ AllThreadsJoined)

\* C12: the collector reads the stop signal between phase A and phase B and
\* during the wait: when phase A of a tick ends with Stop already requested
\* (m_running false), phase B of that tick is not started; and a tick
\* starts only with m_running true, so none starts once Stop was requested
\* during the wait.
C12_StopSampledBetweenPhases ==
    [][/\ (col_pc = "boardinfo" /\ col_pc' # "boardinfo" /\ ~col_running)
            => col_pc' # "stackinfo"
       /\ (col_pc # "boardinfo" /\ col_pc' = "boardinfo") => col_running]_vars

\* C13: an alert that is in the store and acknowledged stays as it is, the
\* acknowledgement and every other field, until it is removed: across every
\* step it is either gone from the store or unchanged.
C13_AcknowledgedAlertKept ==
    [][\A u \in DOMAIN m_alerts :
          m_alerts[u].m_isAcknowledged =>
              (u \in DOMAIN m_alerts' => m_alerts'[u] = m_alerts[u])]_vars

\* the listed alerts that are in the store, by their position in the argument
\* of the AcknowledgeMultiple call in progress
ListedPresent == {i \in 1..Len(am_alertUUIDs) : am_alertUUIDs[i] \in DOMAIN m_alerts}

\* the call in progress has acknowledged a part of them and not yet the rest
AcknowledgeMultiple_Partial ==
    /\ am_pc = "loop"
    /\ \E i \in ListedPresent : i < am_idx
    /\ \E i \in ListedPresent : i >= am_idx

\* C14: AcknowledgeMultiple is atomic with respect to the other operations
\* of the alert store: no step of a reader (GetUnacknowledged) and no other
\* writer operation (Save, Acknowledge) is taken while the call has
\* acknowledged only a part of the listed alerts that are in the store.
C14_AcknowledgeMultipleAtomic ==
    [][(\/ ga_pc' # ga_pc
        \/ ga_result' # ga_result
        \/ al_flip' # al_flip /\ am_pc' = am_pc)
          => ~AcknowledgeMultiple_Partial]_vars

\* a batch is half applied, under the exclusive lock, with two listed alerts
\* in the store
C14_Witness ==
    /\ AcknowledgeMultiple_Partial
    /\ al_mutex = "exclusive"
    /\ Cardinality(ListedPresent) = 2

\* the SaveAll call in progress has applied a proper part of its batch
StackSaveAll_Partial ==
    /\ ss_pc = "loop"
    /\ 1 < ss_idx
    /\ ss_idx <= Len(ss_stacks)

\* C15: SaveAll of the stack repository applies its whole batch under one
\* exclusive lock: no step of a reader (GetAll) is taken while only a
\* proper part of the batch's upserts is applied, so a reader sees the map
\* before the batch or after the whole batch.
C15_SaveAllAtomicForReaders ==
    [][(sg_pc' # sg_pc \/ sg_result' # sg_result) => ~StackSaveAll_Partial]_vars

\* a batch of three is partly applied, under the exclusive lock, and the
\* last GetAll returned a different map
C15_Witness ==
    /\ StackSaveAll_Partial
    /\ st_mutex = "exclusive"
    /\ Len(ss_stacks) = 3
    /\ sg_result # {}
    /\ sg_result # StackRepository_GetAll(m_stacks)

AckCommandProcessed ==
    /\ lst_pc = "process" /\ lst_pc' = "check"
    /\ lst_buffer.commandComplete
    /\ lst_buffer.packetType = "AcknowledgeAlert"
    /\ lst_buffer.arg \in DOMAIN m_alerts

\* the broadcaster passes the alert stage of an iteration
AlertTick == bc_pc = "alerts" /\ bc_pc' = "labels"

\* the store holds the alert the webhook posted, and it is acknowledged
OnlyAlertAcknowledged ==
    /\ DOMAIN m_alerts = {GenerateAlertUUID("alert-board", 0, 0)}
    /\ \A u \in DOMAIN m_alerts : m_alerts[u].m_isAcknowledged

\* C18: acknowledge round trip.  When the listener processes an
\* AcknowledgeAlert command carrying the UUID of the alert the webhook
\* posted, it acknowledges the alert and sends a response with
\* result = Success; while that alert is the only one and acknowledged, the
\* alert stage of the broadcaster finds no unacknowledged alert and sends no
\* alert packet at all (it takes no sequence number either)
C18_AcknowledgeRoundTrip ==
    [][/\ AckCommandProcessed =>
             /\ lst_response' = CommandResponse(lst_buffer.commandID, "AcknowledgeAlert", TRUE)
             /\ net_last' = CommandResponsePacket
             /\ m_alerts'[lst_buffer.arg].m_isAcknowledged
       /\ (AlertTick /\ OnlyAlertAcknowledged) =>
             /\ m_sequenceNumber' = m_sequenceNumber
             /\ net_last' = net_last
             /\ bc_lastOp' # bc_lastOp =>
                    bc_lastOp' = [op |-> "BroadcastAlerts", read |-> 0, stored |-> 1,
                                  sent |-> <<>>]]_vars

\* the command was answered with Success, and the alert stage then ran with
\* the acknowledged alert in the store
C18_Witness ==
    /\ OnlyAlertAcknowledged
    /\ lst_response = CommandResponse(3, "AcknowledgeAlert", TRUE)
    /\ net_last = CommandResponsePacket
    /\ bc_lastOp = [op |-> "BroadcastAlerts", read |-> 0, stored |-> 1, sent |-> <<>>]

\* C18 as stated: the alerts broadcast that follows the acknowledgement is a
\* packet with alertCount = 0
C18_NextBroadcastHasZeroCount ==
    [][(AlertTick /\ OnlyAlertAcknowledged /\ bc_lastOp'.op = "BroadcastAlerts"
            /\ bc_lastOp' # bc_lastOp) =>
          /\ bc_lastOp'.sent # <<>>
          /\ bc_lastOp'.sent[Len(bc_lastOp'.sent)].count = 0
          /\ net_last' = Packet("AlertMessage", m_sequenceNumber, 0)]_vars

\* the broadcaster passes the label stage of an iteration
LabelTick == bc_pc = "labels" /\ bc_pc' = "sleep"

\* the stage sent no packet and took no sequence number
NothingEmitted(op) ==
    /\ m_sequenceNumber' = m_sequenceNumber
    /\ net_last' = net_last
    /\ bc_lastOp' # bc_lastOp => (bc_lastOp'.op = op /\ bc_lastOp'.sent = <<>>)

\* C19: a stream with nothing to send emits no packet for the tick.  When no
\* stored alert is unacknowledged, the alert stage sends no alert packet and
\* leaves the sequence number as it was; when the stack repository is empty,
\* the label stage sends no label packet and leaves the sequence number as
\* it was
C19_EmptyStreamEmitsNothing ==
    [][/\ (AlertTick /\ \A u \in DOMAIN m_alerts : m_alerts[u].m_isAcknowledged)
             => NothingEmitted("BroadcastAlerts")
       /\ (LabelTick /\ DOMAIN m_stacks = {})
             => NothingEmitted("BroadcastStackLabels")]_vars

\* the label stage ran on an empty stack repository after the alert stage
\* of the same iteration had built a packet: the sequence number is still
\* the one that follows the alert packet's
C19_Witness ==
    /\ bc_lastOp = [op |-> "BroadcastStackLabels", read |-> 0, stored |-> 0, sent |-> <<>>]
    /\ DOMAIN m_alerts # {}
    /\ m_sequenceNumber = Uint32_Inc(Uint32_Zero)
    /\ DOMAIN m_stacks = {}

\* b is greater than a modulo 2^32: b - a is in 1 .. 2^31 - 1
SequenceGreater(b, a) ==
    LET d == Uint32_Sub(b, a)
    IN  d # Uint32_Zero /\ d[1] < UINT16_MODULUS \div 2

\* the alert or label stage emits at least one packet
BroadcasterEmits ==
    /\ AlertTick \/ LabelTick
    /\ bc_socketOpen
    /\ bc_lastOp' # bc_lastOp
    /\ Transmitted(bc_lastOp'.sent) # <<>>

\* the listener sends a command response
ListenerResponds ==
    /\ lst_pc = "process" /\ lst_pc' = "check"
    /\ lst_buffer.commandComplete
    /\ lst_buffer.packetType \in {"DeployStack", "UndeployStack", "AcknowledgeAlert"}

\* C20: every alert, label and command-response packet carries a sequence
\* number strictly greater, modulo 2^32, than that of the alert, label or
\* command-response packet sent before it
C20_SequenceNumbersIncrease ==
    [][/\ BroadcasterEmits =>
             /\ net_last # NoPacket =>
                    SequenceGreater(Transmitted(bc_lastOp'.sent)[1].sequenceNumber,
                                    net_last.sequenceNumber)
             /\ \A i \in 2..Len(Transmitted(bc_lastOp'.sent)) :
                    SequenceGreater(Transmitted(bc_lastOp'.sent)[i].sequenceNumber,
                                    Transmitted(bc_lastOp'.sent)[i - 1].sequenceNumber)
       /\ (ListenerResponds /\ net_last # NoPacket) =>
             SequenceGreater(net_last'.sequenceNumber, net_last.sequenceNumber)]_vars

\* a board-status packet is emitted
StatusEmitted == bc_pc = "chassis" /\ bc_lastOp' # bc_lastOp

\* C21: each board-status packet carries the responseID of the packet
\* emitted before it plus 1, and 0 only after 2^32 - 1: the successor of
\* uint32_t arithmetic
C21_ResponseIDIncrements ==
    [][(StatusEmitted /\ bc_lastOp.op = "BroadcastChassisStates") =>
          bc_lastOp'.sent[1].responseID = Uint32_Inc(bc_lastOp.sent[1].responseID)]_vars

\* the value the claim gives for a task status
TaskStateExpected(status) ==
    IF status \in {"normal", "running"} THEN 1
    ELSE IF status \in {"", "unknown"} THEN 0 ELSE 2

\* C22: in the board-status packet emitted for the snapshot read, the command
\* code is 0xF000; for every chassis c and slot s in 1..12, boardStates is 1
\* when the board is Normal and 0 otherwise, and taskStates is 0 at and
\* beyond the board's task count and otherwise 1 for "normal" or "running",
\* 0 for "" or "unknown" and 2 for anything else; slots 13 and 14 have no
\* entry, and the rows of chassis numbers not in the snapshot are 0
C22_StatusPacketContents ==
    [][StatusEmitted =>
         LET p == bc_lastOp'.sent[1]
         IN  /\ p.commandCode = 15 * 4096
             /\ DOMAIN p.boardStates = 1..9 /\ DOMAIN p.taskStates = 1..9
             /\ \A c \in 1..9 :
                   /\ DOMAIN p.boardStates[c] = 1..12 /\ DOMAIN p.taskStates[c] = 1..12
                   /\ \A s \in 1..12 :
                         /\ DOMAIN p.taskStates[c][s] = 1..8
                         /\ IF c <= Len(GetAll)
                            THEN LET board == GetAll[c].m_boards[s]
                                 IN  /\ GetAll[c].m_chassisNumber = c
                                     /\ board.m_boardNumber = s
                                     /\ p.boardStates[c][s] =
                                            (IF board.m_status = "Normal" THEN 1 ELSE 0)
                                     /\ \A k \in 1..8 :
                                           p.taskStates[c][s][k] =
                                              (IF k > board.m_taskCount THEN 0
                                               ELSE TaskStateExpected(
                                                       board.m_tasks[k].taskStatus))
                            ELSE /\ p.boardStates[c][s] = 0
                                 /\ \A k \in 1..8 : p.taskStates[c][s][k] = 0]_vars

\* a packet emitted for a snapshot with a Normal board with tasks of every
\* kind, an Abnormal board, Offline boards and a Normal power board in slot 13
C22_Witness ==
    /\ bc_lastOp.op = "BroadcastChassisStates"
    /\ bc_lastOp.sent[1].boardStates[1] = <<1, 0, 0, 0, 0, 0, 0, 0, 0, 0, 0, 1>>
    /\ bc_lastOp.sent[1].taskStates[1][1] = <<1, 1, 2, 0, 0, 0, 0, 0>>
    /\ bc_lastOp.sent[1].taskStates[1][2] = <<2, 0, 0, 0, 0, 0, 0, 0>>
    /\ GetAll[1].m_boards[13].m_status = "Normal"
    /\ GetAll[1].m_boards[3].m_status = "Offline"

\* the least number of packets of at most perPacket entries that hold n
PacketsNeeded(n, perPacket) == (n + perPacket - 1) \div perPacket

\* the sum of the alertCount or stackCount of the packets
RECURSIVE EntriesIn(_)
EntriesIn(packets) ==
    IF packets = <<>> THEN 0 ELSE packets[1].count + EntriesIn(Tail(packets))

\* the packets cover n entries in chunks of at most perPacket
Chunked(packets, packetType, n, perPacket) ==
    /\ Len(packets) = PacketsNeeded(n, perPacket)
    /\ \A i \in 1..Len(packets) :
          /\ packets[i].packetType = packetType
          /\ 1 <= packets[i].count /\ packets[i].count <= perPacket
          /\ i < Len(packets) => packets[i].count = perPacket
    /\ EntriesIn(packets) = n

\* C23: at an alert tick with n > 0 unacknowledged alerts the broadcaster
\* emits ceil(n/32) alert packets of 1..32 alerts each that together hold
\* the n alerts, filled in order; at a label tick with m > 0 stacks it emits
\* ceil(m/64) label packets of 1..64 stacks each that together hold the m
\* stacks
C23_ChunkedEmission ==
    [][/\ (AlertTick /\ bc_lastOp' # bc_lastOp) =>
             LET n == Cardinality({u \in DOMAIN m_alerts : ~m_alerts[u].m_isAcknowledged})
             IN  n > 0 => Chunked(Transmitted(bc_lastOp'.sent), "AlertMessage", n, 32)
       /\ (LabelTick /\ bc_lastOp' # bc_lastOp) =>
             LET m == Cardinality(DOMAIN m_stacks)
             IN  m > 0 => Chunked(Transmitted(bc_lastOp'.sent), "StackLabel", m, 64)]_vars

\* a datagram that holds a whole Deploy, Undeploy or AckAlert command
ValidCommand(d) ==
    /\ d.headerComplete
    /\ d.commandComplete
    /\ d.packetType \in {"DeployStack", "UndeployStack", "AcknowledgeAlert"}

\* the listener thread runs ProcessCommand on the datagram it received
DatagramProcessed == lst_pc = "process" /\ lst_pc' = "check"

\* the listener thread receives a datagram shorter than a header
DatagramDropped ==
    /\ lst_pc = "recvfrom" /\ lst_pc' = "check"
    /\ lst_inbox # <<>>
    /\ lst_inbox' = Tail(lst_inbox)
    /\ ~Head(lst_inbox).headerComplete

\* C24: a received datagram of type Deploy, Undeploy or AckAlert that is at
\* least as long as that command is answered with one response packet that
\* carries the command's commandID and its command type; any other datagram
\* (shorter than the header, shorter than its command, of another type) is
\* answered with nothing and changes neither the chassis, the stack nor the
\* alert repository
C24_ValidCommandsAnswered ==
    [][/\ (DatagramProcessed /\ ValidCommand(lst_buffer)) =>
             /\ lst_response'.commandID = lst_buffer.commandID
             /\ lst_response'.originalCommandType = lst_buffer.packetType
             /\ lst_response'.result \in {"Success", "Failed"}
             /\ net_last' = CommandResponsePacket
       /\ ((DatagramProcessed /\ ~ValidCommand(lst_buffer)) \/ DatagramDropped) =>
             /\ lst_response' = lst_response
             /\ net_last' = net_last
             /\ GetAll' = GetAll
             /\ m_stacks' = m_stacks
             /\ m_alerts' = m_alerts]_vars

\* a Deploy command was answered, and a datagram of another type processed
\* after it left that answer the last one
C24_Witness ==
    /\ lst_pc = "check"
    /\ lst_buffer.headerComplete /\ ~ValidCommand(lst_buffer)
    /\ lst_response.commandID = 1
    /\ lst_response.originalCommandType = "DeployStack"
    /\ net_last = CommandResponsePacket

\* a call of the stack control service returns
ControlCalled == ctl_last' # ctl_last

\* the backend call of the last control call failed: no response, a status
\* other than 200, or a body that is not JSON
BackendFailed(res) ==
    \/ res.kind = "no_response"
    \/ res.status # 200
    \/ ~res.body.json

\* C25: a deploy or undeploy call with an empty label list returns a failure
\* without posting anything to the backend, a call whose backend call fails
\* returns a failure, and the result code of the first differs from the
\* result code the same call returns for any failure of the backend
C25_ErrorOutcomesDistinguishable ==
    [][ControlCalled =>
          /\ ctl_last'.command.stackLabels = <<>> =>
                /\ ctl_last'.posted = <<>>
                /\ ~ctl_last'.response.success
                /\ \A command \in ControlCommands, res \in DeployExchanges :
                      (command.stackLabels # <<>> /\ BackendFailed(res)) =>
                          ControlCall(ctl_last'.op, command, res, ctl_last).response.errorCode
                              # ctl_last'.response.errorCode
          /\ (ctl_last'.command.stackLabels # <<>> /\ BackendFailed(ctl_last'.reply)) =>
                /\ Len(ctl_last'.posted) = 1
                /\ ~ctl_last'.response.success]_vars

\* the arrays of the reply the backend sent, an absent array being empty
RepliedArray(body, key) == IF key \in DOMAIN body THEN body[key] ELSE <<>>

\* C26: no call of the stack control service, successful or failed, changes
\* the stack repository, and when the backend replies the success and the
\* failure list of the returned DTO are those of the reply
C26_ControlLeavesStacksAlone ==
    [][ControlCalled =>
          /\ m_stacks' = m_stacks
          /\ st_lastOp' = st_lastOp
          /\ (ctl_last'.command.stackLabels # <<>> /\ ~BackendFailed(ctl_last'.reply)) =>
                /\ ctl_last'.response.success
                /\ ctl_last'.response.data.successStacks
                       = RepliedArray(ctl_last'.reply.body, "successStackInfos")
                /\ ctl_last'.response.data.failureStacks
                       = RepliedArray(ctl_last'.reply.body, "failureStackInfos")]_vars

\* Undeploy was called after Deploy on the same labels while a stack is
\* stored, and returned the reply's one success and one failure
C26_Witness ==
    /\ ctl_last.op = "UndeployByLabels"
    /\ ctl_last.before.op = "DeployByLabels"
    /\ ctl_last.before.command = ctl_last.command
    /\ ctl_last.command.stackLabels # <<>>
    /\ DOMAIN m_stacks # {}
    /\ ctl_last.response.success
    /\ Len(ctl_last.response.data.successStacks) = 1
    /\ Len(ctl_last.response.data.failureStacks) = 1

\* the webhook listener has handled a request
WebhookHandled == wh_last'.n # wh_last.n

\* the body is a JSON object whose values, where present, have the types the
\* handlers read them with
WellFormed(body) ==
    /\ body.json
    /\ "fields" \in DOMAIN body
    /\ \A key \in DOMAIN body.fields :
          body.fields[key][1] =
              IF key \in {"chassisNumber", "boardNumber", "slotNumber", "boardStatus",
                          "newStatus", "timestamp"}
              THEN "number"
              ELSE IF key = "messages" THEN "array" ELSE "string"

HasField(body, key, value) ==
    /\ key \in DOMAIN body.fields
    /\ body.fields[key] = JsonString(value)

\* a board alert posted to /webhook/alert, or an offline event posted to
\* /webhook/board
AlertRequest(path, body) ==
    /\ WellFormed(body)
    /\ \/ path = "/webhook/alert" /\ HasField(body, "alertType", "board")
       \/ path = "/webhook/board" /\ HasField(body, "eventType", "offline")

\* malformed JSON, or an alert of a type other than board
BadRequest(path, body) ==
    \/ ~body.json
    \/ /\ path = "/webhook/alert"
       /\ WellFormed(body)
       /\ "alertType" \in DOMAIN body.fields
       /\ ~HasField(body, "alertType", "board")

\* a status change, or a board event other than offline
PlainRequest(path, body) ==
    /\ WellFormed(body)
    /\ \/ path = "/webhook/status"
       \/ path = "/webhook/board" /\ ~HasField(body, "eventType", "offline")

\* the step adds one alert to the store, an unacknowledged board alert
\* without component fields, and leaves the stored alerts as they were
AddsOneBoardAlert ==
    /\ \A v \in DOMAIN m_alerts : v \in DOMAIN m_alerts' /\ m_alerts'[v] = m_alerts[v]
    /\ \E u \in DOMAIN m_alerts' \ DOMAIN m_alerts :
          /\ DOMAIN m_alerts' = DOMAIN m_alerts \cup {u}
          /\ m_alerts'[u].m_alertType = "Board"
          /\ ~m_alerts'[u].m_isAcknowledged
          /\ m_alerts'[u].m_stackName = <<>> /\ m_alerts'[u].m_stackUUID = <<>>
          /\ m_alerts'[u].m_serviceName = <<>> /\ m_alerts'[u].m_serviceUUID = <<>>
          /\ m_alerts'[u].m_taskID = <<>>

\* C27: the webhook listener changes the alert store only by adding alerts.
\* A board alert posted to /webhook/alert or an offline event posted to
\* /webhook/board adds exactly one new unacknowledged board alert with
\* empty component fields and is answered 200; malformed JSON and an
\* unsupported alertType are answered 400, a status change and a board
\* event other than offline 200, and these leave the alert store unchanged
C27_WebhookOnlyAddsAlerts ==
    [][WebhookHandled =>
          /\ AlertRequest(wh_last'.path, wh_last'.body) =>
                wh_last'.status = 200 /\ AddsOneBoardAlert
          /\ BadRequest(wh_last'.path, wh_last'.body) =>
                wh_last'.status = 400 /\ m_alerts' = m_alerts
          /\ PlainRequest(wh_last'.path, wh_last'.body) =>
                wh_last'.status = 200 /\ m_alerts' = m_alerts]_vars

\* an AcknowledgeAlert call returns
AcknowledgeCalled == al_flip' # al_flip /\ al_lastOp'.op = "Acknowledge"

\* C28: Acknowledge is idempotent.  Acknowledging an alert that is already
\* acknowledged returns success and leaves the alert store exactly as it
\* was; acknowledging a UUID that is not in the store returns false and
\* changes nothing
C28_AcknowledgeIdempotent ==
    [][AcknowledgeCalled =>
          /\ (/\ ack_last'.alertUUID \in DOMAIN m_alerts
              /\ m_alerts[ack_last'.alertUUID].m_isAcknowledged) =>
                /\ al_lastOp'.result = 1
                /\ ack_last'.response.success
                /\ m_alerts' = m_alerts
          /\ ack_last'.alertUUID \notin DOMAIN m_alerts =>
                /\ al_lastOp'.result = 0
                /\ ~ack_last'.response.success
                /\ m_alerts' = m_alerts]_vars

\* an alert that was acknowledged has been acknowledged again, with success,
\* while the store holds a second alert that is not acknowledged
C28_Witness ==
    /\ ack_last.again
    /\ ack_last.response.success
    /\ al_lastOp = [op |-> "Acknowledge", arg |-> 0, result |-> 1]
    /\ m_alerts[ack_last.alertUUID].m_isAcknowledged
    /\ \E u \in DOMAIN m_alerts : ~m_alerts[u].m_isAcknowledged

\* what the reader operations of the chassis repository return
ReaderView ==
    [all |-> GetAll,
     byNumber |-> [n \in 0..NumChassis + 1 |-> FindByNumber(n)],
     byAddress |-> [c \in 0..NumChassis + 1 |-> FindByBoardAddress(BoardAddress(c, 1))],
     total |-> CountTotalBoards, normal |-> CountNormalBoards,
     abnormal |-> CountAbnormalBoards, offline |-> CountOfflineBoards]

\* a Save or SaveAll call on the chassis repository returns
StoreCalled == ch_last'.n # ch_last.n

\* C29: a SaveAll of the snapshot the SaveAll right before it committed
\* changes the result of no reader operation (GetAll, FindByNumber,
\* FindByBoardAddress, the four counts): committing twice is to the readers
\* as committing once
C29_DoubleCommitEquivalent ==
    [][(/\ StoreCalled
        /\ ch_last.op = "SaveAll" /\ ch_last'.op = "SaveAll"
        /\ ch_last'.allChassis = ch_last.allChassis)
          => ReaderView' = ReaderView]_vars

\* a snapshot with abnormal boards was committed twice in a row, and the
\* readers see it
C29_Witness ==
    /\ ch_last.n = 2 /\ ch_last.op = "SaveAll"
    /\ m_buffer_A = m_buffer_B
    /\ GetAll = ch_last.allChassis
    /\ CountAbnormalBoards > 0

\* C30: Save(chassis) with a chassis number of the repository updates the
\* stored chassis of that number: once Save has returned, FindByNumber of
\* that number and GetAll return the saved chassis
C30_SaveVisibleToReaders ==
    [][\A n \in 1..NumChassis :
          (StoreCalled /\ ch_last'.op = "Save" /\ ch_last'.chassis.m_chassisNumber = n)
              => /\ FindByNumber(n)' = Some(ch_last'.chassis)
                 /\ GetAll'[n] = ch_last'.chassis]_vars

(***************************************************************************)
(* SpecTopology: the collector committing many board reports.              *)
(***************************************************************************)
TopologyCollectorThread ==
    \/ CollectLoop_Check
    \/ \E res \in BoardExchanges : CollectBoardInfo(res)
    \/ CollectStackInfo(NoResponse)
    \/ CollectLoop_Wait

NextTopology ==
    \/ Collector_Start
    \/ TopologyCollectorThread

SpecTopology == Init /\ [][NextTopology]_vars

SlotKind(slot) ==
    IF slot \in {6, 7} THEN "Switch"
    ELSE IF slot \in {13, 14} THEN "Power"
    ELSE "Computing"

\* C31: in every published snapshot every chassis keeps its number and has
\* exactly 14 boards, slots 6 and 7 of kind Switch, 13 and 14 of kind Power,
\* the others Computing, each with the address and slot number given at
\* startup
C31_TopologyFixed ==
    \A c \in 1..NumChassis :
        /\ GetAll[c].m_chassisNumber = c
        /\ DOMAIN GetAll[c].m_boards = 1..14
        /\ \A s \in 1..14 :
              /\ GetAll[c].m_boards[s].m_boardType = SlotKind(s)
              /\ GetAll[c].m_boards[s].m_boardNumber = s
              /\ GetAll[c].m_boards[s].m_boardAddress = <<192, 168, c, 100 + s>>

\* two commits made, the published snapshot holding a board with a full
\* task list and an offline board
C31_Witness ==
    /\ col_tick >= 1
    /\ m_activeBuffer = "A"
    /\ GetAll # m_buffer_B
    /\ \E c \in 1..NumChassis, s \in 1..BOARDS_PER_CHASSIS :
          GetAll[c].m_boards[s].m_taskCount = MAX_TASKS_PER_BOARD
    /\ \E c \in 1..NumChassis, s \in 1..BOARDS_PER_CHASSIS :
          GetAll[c].m_boards[s].m_status = "Offline"

(***************************************************************************)
(* SpecUninitialised: the repository from its constructor on; main loads a *)
(* topology, which may hold chassis of number 0 next to numbered ones, and *)
(* the collector commits board reports.                                    *)
(***************************************************************************)
\* allChassis with the chassis at index c given the number 0
Unnumbered(allChassis, c) == [allChassis EXCEPT ![c].m_chassisNumber = 0]

\* the default topology, and arrays whose last chassis has the number 0: one
\* with boards never updated, one with normal, abnormal and offline boards
\* and tasks
InitialTopologies ==
    { CreateFullTopology,
      Unnumbered(CreateFullTopology, NumChassis),
      Unnumbered(UpdateAllChassis(CreateFullTopology,
                    <<BoardInfoData(BoardAddress(NumChassis, 1), 0, TaskRamp(2)),
                      BoardInfoData(BoardAddress(NumChassis, 2), 1, <<>>),
                      BoardInfoData(BoardAddress(1, 1), 0, TaskRamp(1))>>),
                 NumChassis) }

InitUninitialised == InMemoryChassisRepository_New /\ Constructed(Uint32_Zero)

NextUninitialised ==
    \/ \E t \in InitialTopologies : ChassisRepo_Initialize(t)
    \/ ch_last.n > 0 /\ Collector_Start
    \/ TopologyCollectorThread

SpecUninitialised == InitUninitialised /\ [][NextUninitialised]_vars

Numbered == {c \in 1..NumChassis : GetAll[c].m_chassisNumber # 0}

\* the boards of the numbered chassis of the published snapshot
NumberedBoards == {cs \in Numbered \X (1..BOARDS_PER_CHASSIS) : TRUE}

BoardAt(cs) == GetAll[cs[1]].m_boards[cs[2]]

\* the task slots in use on the compute boards of the numbered chassis
NumberedTasks ==
    {t \in NumberedBoards \X (1..MAX_TASKS_PER_BOARD) :
        /\ BoardAt(t[1]).m_boardType = "Computing"
        /\ t[2] <= BoardAt(t[1]).m_taskCount}

KnownAddresses ==
    {<<>>, ForeignAddress} \cup
    {BoardAddress(c, s) : c \in 1..NumChassis, s \in 1..BOARDS_PER_CHASSIS}

CountersSkipUnnumbered ==
    /\ CountTotalBoards = BOARDS_PER_CHASSIS * Cardinality(Numbered)
    /\ CountNormalBoards =
          Cardinality({cs \in NumberedBoards : BoardAt(cs).m_status = "Normal"})
    /\ CountAbnormalBoards =
          Cardinality({cs \in NumberedBoards :
                          BoardAt(cs).m_status \in {"Abnormal", "Offline"}})
    /\ CountOfflineBoards =
          Cardinality({cs \in NumberedBoards : BoardAt(cs).m_status = "Offline"})
    /\ CountTotalTasks = Cardinality(NumberedTasks)

FindersSkipUnnumbered ==
    /\ \A n \in 0..(NumChassis + 1) :
          /\ FindByNumber(n).has_value => FindByNumber(n).value.m_chassisNumber # 0
          /\ FindByNumber(n).has_value <=> n \in Numbered
    /\ \A a \in KnownAddresses :
          IF \E cs \in NumberedBoards : BoardAt(cs).m_boardAddress = a
          THEN /\ FindByBoardAddress(a).has_value
               /\ FindByBoardAddress(a).value.m_chassisNumber # 0
          ELSE FindByBoardAddress(a) = None

AllCountersZero ==
    /\ CountTotalBoards = 0
    /\ CountNormalBoards = 0
    /\ CountAbnormalBoards = 0
    /\ CountOfflineBoards = 0
    /\ CountTotalTasks = 0

CollectorCommitted == col_pc = "boardinfo" /\ col_pc' = "stackinfo" /\ GetAll' # GetAll

\* C32: a chassis of number 0 is never returned by FindByNumber or
\* FindByBoardAddress, no counter counts its boards or tasks, a collector
\* commit leaves it as it was, and before Initialize every counter is 0
C32_NumberZeroIsUninitialised ==
    /\ [](FindersSkipUnnumbered /\ CountersSkipUnnumbered)
    /\ [](ch_last.n = 0 => AllCountersZero)
    /\ [][CollectBoardInfo(lastBoardRes') =>
            \A c \in 1..NumChassis :
                GetAll[c].m_chassisNumber = 0 => GetAll'[c] = GetAll[c]]_vars

\* the collector has committed twice on a snapshot whose last chassis has
\* the number 0 and holds a normal board with tasks, next to a numbered chassis
C32_Witness ==
    /\ col_tick >= 1
    /\ m_activeBuffer = "A"
    /\ m_buffer_A # m_buffer_B
    /\ GetAll[NumChassis].m_chassisNumber = 0
    /\ GetAll[NumChassis].m_boards[1].m_status = "Normal"
    /\ GetAll[NumChassis].m_boards[1].m_taskCount > 0
    /\ Numbered # {}
    /\ CountOfflineBoards > 0

(***************************************************************************)
(* SpecBounded: the collector storing pipelines reported with more labels  *)
(* than a pipeline holds, and board alerts raised with more messages than  *)
(* an alert holds.                                                         *)
(***************************************************************************)
LabelRamp(n) == [i \in 1..n |-> StackLabelInfo(<<"label", i>>, <<"label-uuid", i>>)]

MessageRamp(n) == [i \in 1..n |-> <<"message", i>>]

LabelCounts == {0, 1, MAX_LABELS_PER_STACK, MAX_LABELS_PER_STACK + 1}

MessageCounts == {1, MAX_ALERT_MESSAGES, MAX_ALERT_MESSAGES + 2}

BoundedStackExchanges ==
    {HttpResponse(200, JsonData(<<StackInfoData("stack-1", StackRunningStatus_Normal,
                                                LabelRamp(n), <<>>),
                                  StackInfoData("stack-2", StackRunningStatus_Normal,
                                                LabelRamp(1), <<>>)>>)) :
        n \in LabelCounts}

BoundedCollectorThread ==
    \/ CollectLoop_Check
    \/ CollectBoardInfo(NoResponse)
    \/ \E res \in BoundedStackExchanges : CollectStackInfo(res)
    \/ CollectLoop_Wait

NextBounded ==
    \/ Collector_Start
    \/ BoundedCollectorThread
    \/ \E n \in MessageCounts : HandleBoardAlert(BoardAddress(1, 1), MessageRamp(n), 0)

SpecBounded == Init /\ [][NextBounded]_vars

\* the first max entries of given, in order, then zero entries
FirstEntries(given, max, zero) ==
    [i \in 1..max |-> IF i <= Len(given) THEN given[i] ELSE zero]

TimedMessages(messages, clock) ==
    [i \in 1..Len(messages) |-> AlertMessage(messages[i], clock)]

NewLabel == StackLabelInfo(<<"label", 0>>, <<"label-uuid", 0>>)

NewMessage == <<"message", 0>>

\* AddLabel on a stored pipeline: refused without a change when the list is
\* full, appended otherwise
AddLabelBounded(stack) ==
    IF stack.m_labelCount = MAX_LABELS_PER_STACK
    THEN /\ AddLabel_Return(stack, NewLabel) = FALSE
         /\ AddLabel(stack, NewLabel) = stack
    ELSE /\ AddLabel_Return(stack, NewLabel) = TRUE
         /\ AddLabel(stack, NewLabel).m_labelCount = stack.m_labelCount + 1
         /\ AddLabel(stack, NewLabel).m_labels[stack.m_labelCount + 1] = NewLabel

AddMessageBounded(alert) ==
    IF alert.m_messageCount = MAX_ALERT_MESSAGES
    THEN /\ AddMessage_Return(alert, NewMessage) = FALSE
         /\ AddMessage(alert, NewMessage, now) = alert
    ELSE /\ AddMessage_Return(alert, NewMessage) = TRUE
         /\ AddMessage(alert, NewMessage, now).m_messageCount = alert.m_messageCount + 1
         /\ AddMessage(alert, NewMessage, now).m_messages[alert.m_messageCount + 1]
               = AlertMessage(NewMessage, now)

\* the pipelines of a stored report hold the first 8 labels reported
StoredLabelsAreFirst ==
    CollectStackInfo(lastStackRes') /\ GetStackInfo(lastStackRes').has_value =>
        \A i \in 1..Len(GetStackInfo(lastStackRes').value) :
            LET info == GetStackInfo(lastStackRes').value[i]
                stored == m_stacks'[info.stackUUID]
            IN  /\ stored.m_labelCount = Min(Len(info.stackLabelInfos), 8)
                /\ stored.m_labels = FirstEntries(info.stackLabelInfos, 8, ZeroLabel)

\* the alert of a board alert raised holds the first 16 messages given
StoredMessagesAreFirst ==
    \A n \in MessageCounts :
        HandleBoardAlert(BoardAddress(1, 1), MessageRamp(n), 0) =>
            LET stored == m_alerts'[GenerateAlertUUID("alert-board", now, 0)]
            IN  /\ stored.m_messageCount = Min(n, 16)
                /\ stored.m_messages =
                      FirstEntries(TimedMessages(MessageRamp(n), now), 16, ZeroMessage)

\* C33: a stored pipeline holds at most 8 labels and a stored alert at most 16
\* messages; of more labels or messages supplied the first 8 or 16 are kept;
\* AddLabel and AddMessage on a full list return false and change nothing
C33_BoundedCollectionsKeepFirst ==
    /\ [](\A u \in DOMAIN m_stacks :
              m_stacks[u].m_labelCount <= 8 /\ AddLabelBounded(m_stacks[u]))
    /\ [](\A u \in DOMAIN m_alerts :
              m_alerts[u].m_messageCount <= 16 /\ AddMessageBounded(m_alerts[u]))
    /\ [][StoredLabelsAreFirst]_vars
    /\ [][StoredMessagesAreFirst]_vars

\* a pipeline reported with more than 8 labels and an alert raised with more
\* than 16 messages are stored with full lists
C33_Witness ==
    /\ GetStackInfo(lastStackRes).has_value
    /\ Len(GetStackInfo(lastStackRes).value[1].stackLabelInfos) > MAX_LABELS_PER_STACK
    /\ "stack-1" \in DOMAIN m_stacks
    /\ m_stacks["stack-1"].m_labelCount = MAX_LABELS_PER_STACK
    /\ \E u \in DOMAIN m_alerts : m_alerts[u].m_messageCount = MAX_ALERT_MESSAGES
    /\ al_nCreated > 1

(***************************************************************************)
(* Offline boards, under SpecTopology.                                     *)
(***************************************************************************)
PublishedBoards == {GetAll[c].m_boards[s] : c \in 1..NumChassis, s \in 1..BOARDS_PER_CHASSIS}

OfflineBoardProfile(board) ==
    /\ board.m_status = "Offline"
    /\ IsAbnormal(board)
    /\ ~IsOnline(board)
    /\ board.m_taskCount = 0

\* C34: MarkAsOffline leaves a board Offline, abnormal, not online and with
\* no task, every Offline board of a published snapshot is so, and in every
\* published snapshot, for each chassis and for the repository, the abnormal
\* boards are at least the offline ones and the normal and abnormal boards
\* together at most all boards
C34_OfflineCountsAsAbnormal ==
    /\ \A board \in PublishedBoards :
          /\ OfflineBoardProfile(MarkAsOffline(board))
          /\ board.m_status = "Offline" => OfflineBoardProfile(board)
    /\ \A c \in 1..NumChassis :
          /\ Chassis_CountAbnormalBoards(GetAll[c]) >= Chassis_CountOfflineBoards(GetAll[c])
          /\ Chassis_CountNormalBoards(GetAll[c]) + Chassis_CountAbnormalBoards(GetAll[c])
                <= BOARDS_PER_CHASSIS
    /\ CountAbnormalBoards >= CountOfflineBoards
    /\ CountNormalBoards + CountAbnormalBoards <= CountTotalBoards

\* a committed snapshot with offline boards, boards reported abnormal and
\* normal boards that hold tasks
C34_Witness ==
    /\ col_tick >= 1
    /\ CountOfflineBoards > 0
    /\ CountAbnormalBoards > CountOfflineBoards
    /\ \E board \in PublishedBoards : board.m_status = "Normal" /\ board.m_taskCount > 0

(***************************************************************************)
(* SpecRecalculate: callers that save pipelines of every combination of    *)
(* reported running status and service statuses, and callers that          *)
(* recalculate the running status of a stored pipeline and save it back.   *)
(***************************************************************************)
RecalculatedStacks ==
    { ConvertToStack(info) :
        info \in { Stack1_Normal_NoService, Stack1_Normal_ServiceAbnormal,
                   Stack1_Abnormal_ServiceRunning, Stack2_Abnormal_ServiceAbnormal,
                   Stack2_Normal_NoService,
                   StackInfoData("stack-2", StackRunningStatus_Abnormal,
                                 <<StackLabelInfo("label", "label-2")>>, <<>>),
                   StackInfoData("stack-2", StackRunningStatus_Normal, <<>>,
                                 <<ServiceInfo("svc-a", 2, <<StackTaskInfo("t1")>>),
                                   ServiceInfo("svc-b", ServiceStatus_Abnormal,
                                               <<StackTaskInfo("t2")>>)>>),
                   StackInfoData("stack-1", StackRunningStatus_Abnormal, <<>>,
                                 <<ServiceInfo("svc-a", 1, <<>>),
                                   ServiceInfo("svc-b", 4, <<>>)>>) } }

\* stack = *FindByUUID(stackUUID); stack.RecalculateRunningStatus(); Save(stack)
Stack_Recalculate(stackUUID) ==
    /\ stackUUID \in DOMAIN m_stacks
    /\ StackRepo_Save(RecalculateRunningStatus(m_stacks[stackUUID]))

NextRecalculate ==
    \/ \E stack \in RecalculatedStacks : StackRepo_Save(stack)
    \/ \E u \in StackUUIDs : Stack_Recalculate(u)
    \/ \E u \in StackUUIDs : StackRepo_Remove(u)

SpecRecalculate == Init /\ [][NextRecalculate]_vars

AnyServiceAbnormal(stack) ==
    \E v \in DOMAIN stack.m_services : stack.m_services[v].m_status = 3

\* C35: recalculating a stored pipeline makes its running status Abnormal
\* (2) if one of its services has status Abnormal (3) and Normal (1) if none
\* has or it has no service, and changes nothing else of the pipeline
C35_RecalculateRunningStatus ==
    [][\A u \in DOMAIN m_stacks :
          Stack_Recalculate(u) =>
              /\ m_stacks'[u].m_runningStatus =
                    IF AnyServiceAbnormal(m_stacks[u]) THEN 2 ELSE 1
              /\ \A field \in DOMAIN m_stacks[u] \ {"m_runningStatus"} :
                    m_stacks'[u][field] = m_stacks[u][field]
              /\ \A v \in DOMAIN m_stacks \ {u} : m_stacks'[v] = m_stacks[v]]_vars

\* recalculated: a pipeline stored as Normal with an Abnormal service, now
\* Abnormal, and one stored as Abnormal without services, now Normal
C35_Witness ==
    /\ DOMAIN m_stacks = {"stack-1", "stack-2"}
    /\ m_stacks["stack-1"] \notin RecalculatedStacks
    /\ m_stacks["stack-1"].m_runningStatus = StackRunningStatus_Abnormal
    /\ AnyServiceAbnormal(m_stacks["stack-1"])
    /\ m_stacks["stack-2"] \notin RecalculatedStacks
    /\ m_stacks["stack-2"].m_runningStatus = StackRunningStatus_Normal
    /\ m_stacks["stack-2"].m_labelCount = 1

(***************************************************************************)
(* SpecPointers: the repository from its constructor on; main loads a      *)
(* topology, then one writer thread calls SaveAll, each statement a step,  *)
(* and Save.                                                               *)
(***************************************************************************)
NextPointers ==
    \/ \E t \in InitialTopologies : ChassisRepo_Initialize(t)
    \/ ch_last.n > 0 /\ \E allChassis \in BufferSnapshots : SaveAll_Call(allChassis)
    \/ SaveAll_Write
    \/ SaveAll_Exchange
    \/ SaveAll_Rotate
    \/ ch_last.n > 0 /\ ChassisRepo_Save(CreateChassis(1))

SpecPointers == InitUninitialised /\ [][NextPointers]_vars

InitializeReturned == ch_last.n = 0 /\ ch_last'.op = "Initialize"

\* C36: when no operation of the chassis repository is in progress the
\* active pointer and the back-buffer pointer name the two different buffers;
\* Initialize leaves both buffers equal to its argument and A active; A is
\* active after an even number of completed SaveAll calls and B after an odd
\* number, so each SaveAll makes the other buffer active and the buffer that
\* was active the back buffer
C36_PointersDesignateDistinctBuffers ==
    /\ [](sv_pc = "idle" =>
            /\ {m_activeBuffer, m_backBuffer} = {"A", "B"}
            /\ m_activeBuffer = IF nCommits % 2 = 0 THEN "A" ELSE "B")
    /\ [][InitializeReturned =>
            /\ m_buffer_A' = ch_last'.allChassis
            /\ m_buffer_B' = ch_last'.allChassis
            /\ m_activeBuffer' = "A"
            /\ m_backBuffer' = "B"]_vars
    /\ [][sv_pc = "rotate" /\ sv_pc' = "idle" =>
            /\ m_activeBuffer' # sv_oldActive
            /\ m_backBuffer' = sv_oldActive
            /\ Buffer(m_activeBuffer)' = sv_allChassis]_vars

\* two SaveAll calls have returned after Initialize and a Save: A is active
\* again and holds the second snapshot
C36_Witness ==
    /\ ch_last.op = "Save"
    /\ sv_pc = "idle"
    /\ nCommits = 2
    /\ m_activeBuffer = "A"
    /\ m_buffer_A = sv_allChassis
    /\ m_buffer_A # m_buffer_B

(***************************************************************************)
(* SpecAlertPackets: the broadcaster at its alert stage, webhooks posting  *)
(* board alerts and front ends acknowledging alerts.                       *)
(***************************************************************************)
AlertBroadcasterThread ==
    \/ (bc_running => bc_tick < MaxBroadcasts) /\ BroadcastLoop_Check
    \/ BroadcastLoop_Chassis(FALSE)
    \/ \E due \in BOOLEAN : BroadcastLoop_Alerts(due)
    \/ BroadcastLoop_Labels(FALSE)
    \/ BroadcastLoop_Sleep

NextAlertPackets ==
    \/ Broadcaster_Start(TRUE)
    \/ AlertBroadcasterThread
    \/ \E random \in RandomValues : HandleBoardAlert(BoardAddress(1, 1), <<"overheat">>, random)
    \/ \E alertUUID \in AcknowledgedUUIDs : AlertService_AcknowledgeAlert(alertUUID)

SpecAlertPackets == Init /\ [][NextAlertPackets]_vars

\* BroadcastAlerts runs
AlertsBroadcast == bc_running /\ BroadcastLoop_Alerts(TRUE)

PacketUUIDs ==
    {AlertPacketEntries(m_alerts, now)[i].m_alertUUID :
        i \in 1..Len(AlertPacketEntries(m_alerts, now))}

\* every alert placed in a packet is unacknowledged, in the packet and in the
\* store the broadcaster read, and no acknowledged alert of that store is placed
PacketsHoldUnacknowledged ==
    AlertsBroadcast =>
        /\ bc_lastOp'.read = Len(AlertPacketEntries(m_alerts, now))
        /\ \A i \in 1..Len(AlertPacketEntries(m_alerts, now)) :
              LET entry == AlertPacketEntries(m_alerts, now)[i]
              IN  /\ ~entry.m_isAcknowledged
                  /\ entry.m_alertUUID \in DOMAIN m_alerts
                  /\ ~m_alerts[entry.m_alertUUID].m_isAcknowledged
        /\ \A u \in DOMAIN m_alerts : m_alerts[u].m_isAcknowledged => u \notin PacketUUIDs

\* the alert a front end acknowledged with success is in no later packet
AcknowledgedStaysAbsent ==
    (AlertsBroadcast /\ ack_last.response.success) => ack_last.alertUUID \notin PacketUUIDs

\* C37: every alert the broadcaster places in an alert packet is
\* unacknowledged in the alert store it read at that tick, and an alert
\* acknowledged before a tick's read is in no packet of that tick or of a
\* later one
C37_NoAcknowledgedAlertBroadcast ==
    [][PacketsHoldUnacknowledged /\ AcknowledgedStaysAbsent]_vars

(***************************************************************************)
(* SpecOverview: one writer thread committing snapshots with SaveAll, each *)
(* statement a step, and a front end thread calling GetSystemOverview.     *)
(***************************************************************************)
OverviewSnapshots ==
    BufferSnapshots \cup
    {UpdateAllChassis(CreateFullTopology,
                      <<BoardInfoData(BoardAddress(1, 1), 0, TaskRamp(3)),
                        BoardInfoData(BoardAddress(1, 2), 1, TaskRamp(1))>>)}

NextOverview ==
    \/ \E allChassis \in OverviewSnapshots : SaveAll_Call(allChassis)
    \/ SaveAll_Write
    \/ SaveAll_Exchange
    \/ SaveAll_Rotate
    \/ GetSystemOverview_GetAll
    \/ GetSystemOverview_Count
    \/ GetSystemOverview_Return

SpecOverview == Init /\ [][NextOverview]_vars

\* the board DTOs of the chassis list of an overview
OverviewBoards(overview) ==
    {cb \in (1..Len(overview.chassis)) \X (1..BOARDS_PER_CHASSIS) : TRUE}

OverviewBoard(overview, cb) == overview.chassis[cb[1]].boards[cb[2]]

OverviewTaskSlots(overview) ==
    {t \in OverviewBoards(overview) \X (1..MAX_TASKS_PER_BOARD) :
        t[2] <= OverviewBoard(overview, t[1]).taskCount}

OverviewReturned == rd_pc = "idle" /\ nReads > 0

\* C38: the totals of a returned overview are the counts of normal (0),
\* abnormal (1 or 2) and offline (2) boards and of tasks over the chassis
\* list of the same overview
C38_OverviewConsistent ==
    OverviewReturned =>
        /\ rd_result.totalBoards = Cardinality(OverviewBoards(rd_result))
        /\ rd_result.totalNormalBoards =
              Cardinality({cb \in OverviewBoards(rd_result) :
                              OverviewBoard(rd_result, cb).boardStatus = 0})
        /\ rd_result.totalAbnormalBoards =
              Cardinality({cb \in OverviewBoards(rd_result) :
                              OverviewBoard(rd_result, cb).boardStatus \in {1, 2}})
        /\ rd_result.totalOfflineBoards =
              Cardinality({cb \in OverviewBoards(rd_result) :
                              OverviewBoard(rd_result, cb).boardStatus = 2})
        /\ rd_result.totalTasks = Cardinality(OverviewTaskSlots(rd_result))

(***************************************************************************)
(* SpecAckMultiple: webhooks posting board alerts and a front end calling  *)
(* AcknowledgeMultiple with lists that repeat a UUID and name absent ones. *)
(***************************************************************************)
RepeatingBatches ==
    { <<>>,
      <<AbsentAlertUUID>>,
      <<GenerateAlertUUID("alert-board", 0, 0), GenerateAlertUUID("alert-board", 0, 0),
        AbsentAlertUUID>>,
      <<GenerateAlertUUID("alert-board", 0, 1), GenerateAlertUUID("alert-board", 0, 0),
        GenerateAlertUUID("alert-board", 0, 1)>> }

NextAckMultiple ==
    \/ \E random \in RandomValues : HandleBoardAlert(BoardAddress(1, 1), <<"overheat">>, random)
    \/ \E alertUUIDs \in RepeatingBatches : AcknowledgeMultiple_Lock(alertUUIDs)
    \/ AcknowledgeMultiple_Step
    \/ AcknowledgeMultiple_Return

SpecAckMultiple == Init /\ [][NextAckMultiple]_vars

AcknowledgeMultiple_Running == am_pc = "loop"

AcknowledgeMultiple_Returns == am_pc = "loop" /\ am_pc' = "idle"

\* C39: AcknowledgeMultiple returns the number of entries of its list whose
\* UUID is in the store, a UUID listed twice counting twice; when it returns
\* every listed UUID that is in the store is acknowledged; while it runs the
\* store changes only by a listed alert that is present becoming acknowledged
C39_AcknowledgeMultipleCounts ==
    /\ [][AcknowledgeMultiple_Returns =>
            /\ al_lastOp'.result = Cardinality(ListedPresent)
            /\ \A i \in ListedPresent : m_alerts'[am_alertUUIDs[i]].m_isAcknowledged]_vars
    /\ [][AcknowledgeMultiple_Running =>
            /\ DOMAIN m_alerts' = DOMAIN m_alerts
            /\ \A u \in DOMAIN m_alerts :
                  \/ m_alerts'[u] = m_alerts[u]
                  \/ /\ \E i \in ListedPresent : am_alertUUIDs[i] = u
                     /\ m_alerts'[u] = [m_alerts[u] EXCEPT !.m_isAcknowledged = TRUE]]_vars

\* a call has returned 2 for a list that names one stored alert twice and an
\* absent one; the other stored alert is unacknowledged
C39_Witness ==
    /\ am_pc = "idle"
    /\ al_lastOp = [op |-> "AcknowledgeMultiple", arg |-> 0, result |-> 2]
    /\ Len(am_alertUUIDs) = 3
    /\ AbsentAlertUUID \in {am_alertUUIDs[i] : i \in 1..Len(am_alertUUIDs)}
    /\ Cardinality(DOMAIN m_alerts) = 2
    /\ m_alerts[GenerateAlertUUID("alert-board", 0, 0)].m_isAcknowledged
    /\ ~m_alerts[GenerateAlertUUID("alert-board", 0, 1)].m_isAcknowledged

(***************************************************************************)
(* SpecDeployCommands: front ends sending Deploy and Undeploy commands to  *)
(* the running command listener, the backend answering with successes,     *)
(* with failures only, with no stack at all, or failing.                   *)
(***************************************************************************)
DeployDatagrams ==
    { Datagram(TRUE, "DeployStack", TRUE, 1, <<"label", 1>>),
      Datagram(TRUE, "UndeployStack", TRUE, 2, <<"label", 1>>),
      Datagram(TRUE, "DeployStack", TRUE, 3, <<>>),
      Datagram(TRUE, "UndeployStack", FALSE, 4, <<"label", 2>>) }

FailuresOnlyReply ==
    JsonDeploy(<<>>, <<StackResult("stack-2", <<"stack", 2>>, "no resources")>>)

DeployCommandExchanges ==
    {NoResponse, HttpResponse(500, FailuresOnlyReply), HttpResponse(200, NotJson),
     HttpResponse(200, FailuresOnlyReply), HttpResponse(200, JsonNoData),
     HttpResponse(200, JsonDeploy(<<StackResult("stack-1", <<"stack", 1>>, "ok")>>, <<>>))}

NextDeployCommands ==
    \/ Listener_Start(TRUE)
    \/ ListenLoop_Check
    \/ ListenLoop_Recv
    \/ \E res \in DeployCommandExchanges : ListenLoop_Process(res)
    \/ \E d \in DeployDatagrams : Datagram_Arrive(d)

SpecDeployCommands == Init /\ [][NextDeployCommands]_vars

\* what the Backend Client call of the command in lst_buffer returned
BackendReply(res) ==
    IF lst_buffer.packetType = "DeployStack" THEN QywApiClient_Deploy(res)
                                             ELSE QywApiClient_Undeploy(res)

DeployCommandProcessed ==
    /\ DatagramProcessed
    /\ lst_buffer.commandComplete
    /\ lst_buffer.packetType \in {"DeployStack", "UndeployStack"}

\* C40: the response to a Deploy or Undeploy command carries Success exactly
\* when the Backend Client call returned a parsed reply, whatever the reply
\* lists as failed; it carries Failed only after a backend call that failed
C40_SuccessIffReplyParsed ==
    [][DeployCommandProcessed =>
          /\ ctl_last'.op = ControlOpOf(lst_buffer.packetType)
          /\ ctl_last'.posted # <<>>
          /\ lst_response'.commandID = lst_buffer.commandID
          /\ lst_response'.result = "Success" <=> BackendReply(ctl_last'.reply).has_value
          /\ lst_response'.result = "Failed" <=> ~BackendReply(ctl_last'.reply).has_value]_vars

\* a Deploy command was answered Success although the reply of the backend
\* lists a failed stack and no successful one
C40_Witness ==
    /\ lst_pc = "check"
    /\ lst_buffer.packetType = "DeployStack" /\ lst_buffer.commandComplete
    /\ lst_response.commandID = lst_buffer.commandID
    /\ lst_response.result = "Success"
    /\ ctl_last.op = "DeployByLabels"
    /\ ctl_last.reply = HttpResponse(200, FailuresOnlyReply)
    /\ ctl_last.response.data.failureCount = 1
    /\ ctl_last.response.data.successCount = 0

=============================================================================
